---- MODULE Spec2Model ----
(***************************************************************************)
(* Pipeline chain engine of the data-exploration agent                     *)
(* (app/agent/core/pipeline.py, app/agent/pipelines/data_explorer.py,      *)
(* app/agent/pipelines/records.py, app/agent/core/heartbeat.py).           *)
(*                                                                         *)
(* One session object and one agent object exist at a time.  A run is a    *)
(* chain of Python calls; each call step is one action, the program        *)
(* counter pc names the statement about to execute.                        *)
(***************************************************************************)
EXTENDS Integers, Sequences, FiniteSets, TLC

(* ------------------------------ bounds --------------------------------- *)
MaxCols == 2
MaxRows == 1

(* ------------------------- program constants --------------------------- *)
MIN_SAMPLE_SIZE == 25

DATA_SUMMARY_COLS ==
    <<"data_field_name", "data_type", "missing_count", "missing_ratio", "unique_count">>

DATA_SUMMARY_NEW_COLS == <<"description">>

DATA_SUMMARY_TYPE_COLS == <<"_data_types", "_data_num_types">>

(* ------------------------------ helpers -------------------------------- *)
Range(s) == {s[i] : i \in 1..Len(s)}

RECURSIVE SeqsUpTo(_, _)
SeqsUpTo(S, n) ==
    IF n = 0 THEN {<< >>}
    ELSE LET shorter == SeqsUpTo(S, n - 1)
         IN  shorter \cup {Append(q, x) : q \in {r \in shorter : Len(r) = n - 1}, x \in S}

SeqsOfLen(S, n) == {q \in SeqsUpTo(S, n) : Len(q) = n}

Min(a, b) == IF a < b THEN a ELSE b

(* Python's None, for object-valued fields and references. *)
None == [kind |-> "None"]

(* The stage classes of data_explorer.py; one instance of each exists, as in
   DataExplorer. *)
Stages == {"DefineDataset", "DescribeDataset", "DataTyperStage"}

NoStage == "NoStage"

(* ------------------------------ tables --------------------------------- *)
(* A pandas DataFrame is kept column-wise: the ordered column names and,
   per column, the cells top to bottom.  "null" is a missing cell (None/NaN). *)
NullCell == "null"

CellValues == {"null", "x"}

ColumnNames == <<"age", "city", "spend">>

Frame(columns, cells) == [kind |-> "DataFrame", columns |-> columns, cells |-> cells]

IsFrame(v) == v.kind = "DataFrame"

NRows(df) == IF Len(df.columns) = 0 THEN 0 ELSE Len(df.cells[df.columns[1]])

(* Input tables: 0..MaxCols columns, every column 0..MaxRows cells long. *)
InputTables ==
    UNION { UNION { { Frame(SubSeq(ColumnNames, 1, nc), cells)
                        : cells \in [Range(SubSeq(ColumnNames, 1, nc)) -> SeqsOfLen(CellValues, nr)] }
                    : nr \in IF nc = 0 THEN {0} ELSE 0..MaxRows }
            : nc \in 0..Min(MaxCols, Len(ColumnNames)) }


(* ------------------------- pandas operations --------------------------- *)
(* df.head(n): the first n rows of every column. *)
HeadRows(df, n) ==
    Frame(df.columns, [c \in Range(df.columns) |-> SubSeq(df.cells[c], 1, Min(n, Len(df.cells[c])))])

(* df[c].isna().sum() *)
IsnaSum(col) == Cardinality({i \in 1..Len(col) : col[i] = NullCell})

(* Variant: nunique counts the missing value as a value. *)
Nunique_CountsNull(col) == Cardinality(Range(col))

(* df[c].nunique(): distinct non-null values *)
Nunique(col) == Cardinality(Range(col) \ {NullCell})

(* dtype pandas infers for a column built from Python values *)
Dtype(col) ==
    IF Range(col) \subseteq {NullCell} THEN "object"
    ELSE IF NullCell \in Range(col) THEN "float64" ELSE "int64"

(* round-half-even of n/d, d > 0 *)
RoundDiv(n, d) ==
    LET q == n \div d
        r == n % d
    IN  IF 2 * r < d THEN q
        ELSE IF 2 * r > d THEN q + 1
        ELSE IF q % 2 = 0 THEN q ELSE q + 1

(* (isna().sum() / len(data) * 100).round(5), kept in units of 10^-5;
   0/0 is NaN. *)
MissingRatio(col) ==
    IF Len(col) = 0 THEN [nan |-> TRUE, e5 |-> 0]
    ELSE [nan |-> FALSE, e5 |-> RoundDiv(IsnaSum(col) * 10000000, Len(col))]

(* series.map(dict): the dict's value, NaN where the key is absent *)
MapDict(keys, dict) ==
    [i \in 1..Len(keys) |-> IF keys[i] \in DOMAIN dict THEN dict[keys[i]] ELSE "NaN"]

(* Variant: the assignment rebinds the table to the one new column. *)
SetColumn_Fresh(df, name, values) ==
    Frame(<<name>>, [c \in {name} |-> values])

(* df[name] = values: overwrite in place, or append a new last column *)
SetColumn(df, name, values) ==
    Frame(IF name \in Range(df.columns) THEN df.columns ELSE Append(df.columns, name),
          [c \in Range(df.columns) \cup {name} |-> IF c = name THEN values ELSE df.cells[c]])

(* ------------------------------ state ---------------------------------- *)
VARIABLES
    next_stage,   \* ChainStage._next_stage of every stage instance
    pipe,         \* BasementPipe.pipe
    session,      \* the fields of the one SessionProfiler object
    agent,        \* the agent's AgentStatus fields
    pc,           \* the statement about to execute
    entry,        \* which call the caller made
    cur,          \* the stage whose forward is executing (self)
    arg,          \* what the local name `session` of the executing frame refers to
    result,       \* what the outermost call returned
    error,        \* the exception that left the outermost call
    visited,      \* the forward frames entered during the run, in order
    before,       \* the stage called and the objects' fields when the caller made its call
    recv,         \* the receiver of the latest set_next_stage call
    ret,          \* what the latest set_next_stage call returned
    workflow,     \* Actuator.workflow: workflow name -> tool name -> metadata
    action_space, \* Actuator._action_space: workflow name -> tool name -> callable
    reg_op,       \* the latest operation on the Actuator registry
    first_run,    \* the call and the outcome of a finished run kept for comparison with the next
    sig,          \* the signature of the function handed to Actuator.__call__
    schema,       \* the "parameters" record __call__ stored for it
    spine_cls,    \* the class of the Spine instance `self`
    history,      \* instance -> its history list
    current,      \* instance -> its temporary holder `current`
    spc,          \* the position of the Spine call in progress
    frame,        \* the run call in progress
    loop,         \* the run_loop call in progress
    calls,        \* the run calls started since the latest top-level call, in order
    call_end,     \* what the latest top-level call returned or raised
    tally,        \* instance -> how many run calls were started, returned and raised
    mgr,          \* the ConnectionManager, its rooms, its lock and the tasks that use it
    sock          \* socket.py's heartbeat and active_connections, and the endpoint coroutines

vars == <<next_stage, pipe, session, agent, pc, entry, cur, arg, result, error, visited, before,
          recv, ret, workflow, action_space, reg_op, first_run, sig, schema,
          spine_cls, history, current, spc, frame, loop, calls, call_end, tally, mgr, sock>>

(* The variables of the tool registry, and of the latest set_next_stage call *)
regvars == <<workflow, action_space, reg_op>>

linkvars == <<recv, ret>>

(* The variables of the schema built from a signature *)
schemavars == <<sig, schema>>

(* The variables of the Spine instances and their calls *)
spinevars == <<spine_cls, history, current, spc, frame, loop, calls, call_end, tally>>

(* The variables of the API layer: dashboard's manager, socket's heartbeat *)
apivars == <<mgr, sock>>

(* What the steps of the stage chain leave alone, and what the registry's do *)
offchain == <<regvars, schemavars, spinevars, apivars>>

offreg == <<schemavars, spinevars, apivars>>

chainvars == <<next_stage, pipe, session, agent, pc, entry, cur, arg, result, error, visited,
               before, linkvars, first_run>>

SessionRef == "session"
NoneRef == "None"

NoState == "None"

NoError == [type |-> "none", site |-> "none", stage |-> NoStage, missing |-> {}, extra |-> {}]

Err(type, site, stage) ==
    [type |-> type, site |-> site, stage |-> stage, missing |-> {}, extra |-> {}]

ErrCols(type, site, stage, missing, extra) ==
    [type |-> type, site |-> site, stage |-> stage, missing |-> missing, extra |-> extra]

(* SessionProfiler(id, data, created_timestamp): the report fields start None *)
NewSessionRecord(data) ==
    [id |-> "uuid", created_timestamp |-> "now", data |-> data,
     data_types |-> None, data_summary |-> None, description |-> None]

(* AgentStatus(): alive False, state None *)
NewAgent == [alive |-> FALSE, state |-> NoState]

(* One entry of visited: the stage whose forward frame was entered, how it was
   entered, agent.state and the session argument at that moment, and whether
   the frame's own validate_stage_output has since returned without raising. *)
Visit(s, via, ref) ==
    [stage |-> s, via |-> via, state |-> agent.state, arg |-> ref, validated |-> FALSE]

NoCall == [head |-> NoStage, session |-> NewSessionRecord(None), agent |-> NewAgent]

CallOf(s) == [head |-> s, session |-> session, agent |-> agent]

(* `self`, and the NumericTyper that DataTyper.run_loop creates for itself *)
Instances == {"self", "numTyper"}

(* `self.current = None` *)
NoEntry == [function |-> "none", input |-> "none", output |-> "none"]

NoFrame == [inst |-> "none", label |-> "none", in_loop |-> FALSE, reply |-> "none"]

NoLoop ==
    [kind |-> "none", via |-> "none", cols |-> << >>, i |-> 1, base |-> 0,
     meta |-> << >>, meta_num |-> << >>]

NoOutcome ==
    [op |-> "none", arg |-> "none", raised |-> FALSE, error |-> "none", at |-> "none",
     value |-> "none", meta |-> << >>, meta_num |-> << >>]

NoTally == [started |-> 0, returned |-> 0, raised |-> 0]

(* No function has been decorated *)
NoSchema == [type |-> "none", required |-> << >>, properties |-> << >>]

(* No run is kept for comparison *)
NoRun ==
    [entry |-> "none", head |-> NoStage, chain |-> [s \in Stages |-> NoStage],
     session |-> NewSessionRecord(None), agent |-> NewAgent,
     stages |-> << >>, error |-> NoError, result |-> "pending", after |-> NewSessionRecord(None)]

(* No registry operation yet *)
NoRegOp ==
    [op |-> "none", workflow |-> "none", tool |-> "none",
     func |-> [name |-> "none", version |-> 0],
     outcome |-> [raised |-> FALSE, mentions |-> {}, value |-> [name |-> "none", version |-> 0]]]

(* The set_next_stage calls the program makes: DataExplorer.__post_init__,
   GabyAgent.setup_dataset / setup_data_cleaner. *)
LinkCalls == {<<"DefineDataset", "DescribeDataset">>, <<"DescribeDataset", "DataTyperStage">>}

(* The mocked ollama.ChatResponse content every Spine.run returns *)
LLMReply == "hello"

(* The stages, the session, the agent and the registry after construction *)
BaseInit(datas) ==
    /\ next_stage = [s \in Stages |-> NoStage]
    /\ pipe = NoStage
    /\ session \in {NewSessionRecord(d) : d \in datas}
    /\ agent = NewAgent
    /\ pc = "idle"
    /\ entry = "none"
    /\ cur = NoStage
    /\ arg = NoneRef
    /\ result = "pending"
    /\ error = NoError
    /\ visited = << >>
    /\ before = NoCall
    /\ recv = NoStage
    /\ ret = NoStage
    /\ workflow = << >>
    /\ action_space = << >>
    /\ reg_op = NoRegOp
    /\ first_run = NoRun
    /\ sig = << >>
    /\ schema = NoSchema

(* What a Spine variable holds where no Spine instance is followed: the
   stage chain takes a describer's answer as given (LLMReply) *)
Absent == "absent"

SpineAbsent ==
    /\ spine_cls = Absent
    /\ history = Absent
    /\ current = Absent
    /\ spc = Absent
    /\ frame = Absent
    /\ loop = Absent
    /\ calls = Absent
    /\ call_end = Absent
    /\ tally = Absent

(* No manager and no socket endpoint is followed *)
ApiAbsent ==
    /\ mgr = Absent
    /\ sock = Absent

(* Before the first cls(): no instance yet, no call made *)
SpineNew ==
    /\ spine_cls = "none"
    /\ history = [i \in Instances |-> << >>]
    /\ current = [i \in Instances |-> NoEntry]
    /\ spc = "idle"
    /\ frame = NoFrame
    /\ loop = NoLoop
    /\ calls = << >>
    /\ call_end = NoOutcome
    /\ tally = [i \in Instances |-> NoTally]

Init ==
    /\ BaseInit(InputTables \cup {None})
    /\ SpineAbsent
    /\ ApiAbsent

Str(v) == [kind |-> "str", value |-> v]

Dict(items) == [kind |-> "dict", items |-> items]

(* ------------------------ call-signature facts -------------------------- *)
(* Positional parameters after self of each stage's own forward:
   DefineDataset.forward(self, session); the other two take (self, agent, session). *)
ForwardArity(s) == IF s = "DefineDataset" THEN 1 ELSE 2

(* Positional arguments every stage passes in `return super().forward(session)` *)
SuperForwardArgs == 1

(* Positional parameters after self of ChainStage.forward(self, agent, session) *)
EngineArity == 2

(* ------------------------- raising and returning ------------------------ *)
(* An exception leaves the current frame.  No frame of the chain catches it;
   BasementPipe.run's except clause is the only handler on the way out. *)
RaiseIn(kind, e) ==
    /\ error' = e
    /\ result' = "pending"
    /\ pc' = IF kind = "basement" THEN "bp_except" ELSE "done"

Raise(e) == RaiseIn(entry, e)

(* Python binds the arguments of stage.forward(...): a TypeError when their
   number is not the one the stage's forward declares, else the body starts. *)
EnterStage(kind, s, nargs, ref, via) ==
    IF nargs = ForwardArity(s)
    THEN /\ cur' = s
         /\ arg' = ref
         /\ visited' = Append(IF via = "delegation" THEN visited ELSE << >>,
                              Visit(s, via, ref))
         /\ pc' = "stage_pre"
         /\ result' = "pending"
         /\ error' = NoError
    ELSE /\ RaiseIn(kind, Err("TypeError", "call_arity", s))
         /\ cur' = NoStage
         /\ arg' = NoneRef
         /\ visited' = IF via = "delegation" THEN visited ELSE << >>

(* ----------------------------- DefineDataset ---------------------------- *)
(* Variant: the summary table lacks the unique_count column. *)
DefineSummary_NoUnique(data) ==
    LET names == data.columns
        col(f(_)) == [i \in 1..Len(names) |-> f(data.cells[names[i]])]
        four == SubSeq(DATA_SUMMARY_COLS, 1, 4)
    IN  Frame(four,
              [c \in Range(four) |->
                   CASE c = "data_field_name" -> names
                     [] c = "data_type" -> col(Dtype)
                     [] c = "missing_count" -> col(IsnaSum)
                     [] c = "missing_ratio" -> col(MissingRatio)])

(* The summary table DefineDataset.forward builds: one row per input column. *)
DefineSummary(data) ==
    LET names == data.columns
        col(f(_)) == [i \in 1..Len(names) |-> f(data.cells[names[i]])]
    IN  Frame(DATA_SUMMARY_COLS,
              [c \in Range(DATA_SUMMARY_COLS) |->
                   CASE c = "data_field_name" -> names
                     [] c = "data_type" -> col(Dtype)
                     [] c = "missing_count" -> col(IsnaSum)
                     [] c = "missing_ratio" -> col(MissingRatio)
                     [] c = "unique_count" -> col(Nunique)])

DefineDataTypes(data) == Dict([c \in Range(data.columns) |-> Dtype(data.cells[c])])

(* `if session.data is None: raise ValueError(...)` *)
DefineForwardPre ==
    /\ pc = "stage_pre"
    /\ cur = "DefineDataset"
    /\ IF arg = NoneRef
       THEN Raise(Err("AttributeError", "precondition", cur))
       ELSE IF session.data = None
       THEN Raise(Err("ValueError", "precondition", cur))
       ELSE pc' = "stage_transform" /\ UNCHANGED <<result, error>>
    /\ UNCHANGED <<next_stage, pipe, session, agent, entry, cur, arg, visited, before>>
    /\ UNCHANGED <<offchain, linkvars, first_run>>

(* Variant: DefineDataset also fills in the dataset-level description. *)
DefineForwardBody_Describes ==
    /\ pc = "stage_transform"
    /\ cur = "DefineDataset"
    /\ session' = [session EXCEPT !.data_types = DefineDataTypes(session.data),
                                  !.data_summary = DefineSummary(session.data),
                                  !.description = Str(LLMReply)]
    /\ pc' = "stage_super"
    /\ UNCHANGED <<next_stage, pipe, agent, entry, cur, arg, result, error, visited, before>>
    /\ UNCHANGED <<offchain, linkvars, first_run>>

(* session.data_types = ...; session.data_summary = pd.DataFrame({...}) *)
DefineForwardBody ==
    /\ pc = "stage_transform"
    /\ cur = "DefineDataset"
    /\ session' = [session EXCEPT !.data_types = DefineDataTypes(session.data),
                                  !.data_summary = DefineSummary(session.data)]
    /\ pc' = "stage_super"
    /\ UNCHANGED <<next_stage, pipe, agent, entry, cur, arg, result, error, visited, before>>
    /\ UNCHANGED <<offchain, linkvars, first_run>>

(* ---------------------------- DescribeDataset --------------------------- *)
(* Variant: the describer's result is stored before the guard is tested. *)
DescribeForwardPre_WriteFirst ==
    /\ pc = "stage_pre"
    /\ cur = "DescribeDataset"
    /\ IF arg = NoneRef
       THEN Raise(Err("AttributeError", "precondition", cur)) /\ UNCHANGED session
       ELSE IF session.data_summary = None
       THEN /\ Raise(Err("ValueError", "precondition", cur))
            /\ session' = [session EXCEPT !.description = Str(LLMReply)]
       ELSE pc' = "stage_transform" /\ UNCHANGED <<result, error, session>>
    /\ UNCHANGED <<next_stage, pipe, agent, entry, cur, arg, visited, before>>
    /\ UNCHANGED <<offchain, linkvars, first_run>>

(* `if session.data_summary is None: raise ValueError(...)` *)
DescribeForwardPre ==
    /\ pc = "stage_pre"
    /\ cur = "DescribeDataset"
    /\ IF arg = NoneRef
       THEN Raise(Err("AttributeError", "precondition", cur))
       ELSE IF session.data_summary = None
       THEN Raise(Err("ValueError", "precondition", cur))
       ELSE pc' = "stage_transform" /\ UNCHANGED <<result, error>>
    /\ UNCHANGED <<next_stage, pipe, session, agent, entry, cur, arg, visited, before>>
    /\ UNCHANGED <<offchain, linkvars, first_run>>

(* Variant: the describer's reply is dropped instead of stored. *)
DescribeForwardDescribe_Dropped ==
    /\ pc = "stage_transform"
    /\ cur = "DescribeDataset"
    /\ \E ok \in BOOLEAN :
         IF ok
         THEN /\ pc' = "stage_transform2"
              /\ UNCHANGED <<result, error>>
         ELSE Raise(Err("ExternalError", "transform", cur))
    /\ UNCHANGED <<next_stage, pipe, session, agent, entry, cur, arg, visited, before>>
    /\ UNCHANGED <<offchain, linkvars, first_run>>

(* session.description = self.dataDescriber.run(agent.client, data_summary=...):
   the call returns the reply, or the external call fails. *)
DescribeForwardDescribe ==
    /\ pc = "stage_transform"
    /\ cur = "DescribeDataset"
    /\ \E ok \in BOOLEAN :
         IF ok
         THEN /\ session' = [session EXCEPT !.description = Str(LLMReply)]
              /\ pc' = "stage_transform2"
              /\ UNCHANGED <<result, error>>
         ELSE /\ Raise(Err("ExternalError", "transform", cur))
              /\ UNCHANGED session
    /\ UNCHANGED <<next_stage, pipe, agent, entry, cur, arg, visited, before>>
    /\ UNCHANGED <<offchain, linkvars, first_run>>

(* DataMetaSummary.run_loop: one run per column of the sample, in column order *)
MetaRunLoop(sample) == [c \in Range(sample.columns) |-> LLMReply]

(* sample = session.data.head(MIN_SAMPLE_SIZE); meta = run_loop(...);
   session.data_summary["description"] = data_field_name.map(meta) *)
DescribeForwardMeta ==
    /\ pc = "stage_transform2"
    /\ cur = "DescribeDataset"
    /\ IF session.data = None
       THEN Raise(Err("AttributeError", "transform", cur)) /\ UNCHANGED session
       ELSE \E failed \in BOOLEAN :
            LET sample == HeadRows(session.data, MIN_SAMPLE_SIZE)
                summary == session.data_summary
            IN  IF failed /\ Len(sample.columns) > 0
                THEN Raise(Err("ExternalError", "transform", cur)) /\ UNCHANGED session
                ELSE IF "data_field_name" \notin Range(summary.columns)
                THEN Raise(Err("AttributeError", "transform", cur)) /\ UNCHANGED session
                ELSE /\ session' = [session EXCEPT !.data_summary =
                            SetColumn(summary, "description",
                                      MapDict(summary.cells["data_field_name"], MetaRunLoop(sample)))]
                     /\ pc' = "stage_super"
                     /\ UNCHANGED <<result, error>>
    /\ UNCHANGED <<next_stage, pipe, agent, entry, cur, arg, visited, before>>
    /\ UNCHANGED <<offchain, linkvars, first_run>>

(* ---------------------------- DataTyperStage ---------------------------- *)
(* DataTyper.run_loop: the broad type of every column and, for the columns
   typed "numeric", the NumericTyper's subtype. *)
TyperRunLoop(sample) ==
    LET meta == [c \in Range(sample.columns) |-> LLMReply]
    IN  <<meta, [c \in {k \in Range(sample.columns) : meta[k] = "numeric"} |-> LLMReply]>>

(* DataTyperStage.forward has no guard of its own: the body runs only when
   data_summary is a DataFrame. *)
TyperForwardPre ==
    /\ pc = "stage_pre"
    /\ cur = "DataTyperStage"
    /\ IF arg = NoneRef
       THEN Raise(Err("AttributeError", "precondition", cur))
       ELSE /\ pc' = IF IsFrame(session.data_summary) THEN "stage_transform" ELSE "stage_super"
            /\ UNCHANGED <<result, error>>
    /\ UNCHANGED <<next_stage, pipe, session, agent, entry, cur, arg, visited, before>>
    /\ UNCHANGED <<offchain, linkvars, first_run>>

TyperForwardBody ==
    /\ pc = "stage_transform"
    /\ cur = "DataTyperStage"
    /\ IF session.data = None
       THEN Raise(Err("AttributeError", "transform", cur)) /\ UNCHANGED session
       ELSE \E failed \in BOOLEAN :
            LET sample == HeadRows(session.data, MIN_SAMPLE_SIZE)
                summary == session.data_summary
                types == TyperRunLoop(sample)
            IN  IF failed /\ Len(sample.columns) > 0
                THEN Raise(Err("ExternalError", "transform", cur)) /\ UNCHANGED session
                ELSE IF "data_field_name" \notin Range(summary.columns)
                THEN Raise(Err("KeyError", "transform", cur)) /\ UNCHANGED session
                ELSE /\ session' = [session EXCEPT !.data_summary =
                            SetColumn(SetColumn(summary, "_data_types",
                                          MapDict(summary.cells["data_field_name"], types[1])),
                                      "_data_num_types",
                                      MapDict(summary.cells["data_field_name"], types[2]))]
                     /\ pc' = "stage_super"
                     /\ UNCHANGED <<result, error>>
    /\ UNCHANGED <<next_stage, pipe, agent, entry, cur, arg, visited, before>>
    /\ UNCHANGED <<offchain, linkvars, first_run>>


(* `return super().forward(session)`, the last statement of every stage's
   forward: one positional argument for ChainStage.forward(self, agent, session). *)
StageSuperForward ==
    /\ pc = "stage_super"
    /\ IF SuperForwardArgs = EngineArity
       THEN pc' = "eng_if" /\ UNCHANGED <<result, error>>
       ELSE Raise(Err("TypeError", "super_forward", cur))
    /\ UNCHANGED <<next_stage, pipe, session, agent, entry, cur, arg, visited, before>>
    /\ UNCHANGED <<offchain, linkvars, first_run>>

(* ------------------------ validate_stage_output ------------------------- *)
(* The exception stage s's validate_stage_output raises for the object the
   reference ref names, or NoError when it returns. *)
DefineValidate(ref, sess) ==
    IF ref = NoneRef THEN Err("AttributeError", "validate", "DefineDataset")
    ELSE IF sess.data_summary = None
    THEN ErrCols("ValueError", "validate", "DefineDataset", {"data_summary"}, {})
    ELSE NoError

(* Variant: only a missing column is reported; extra columns pass. *)
DescribeValidate_MissingOnly(ref, sess) ==
    LET summary_cols == Range(DATA_SUMMARY_COLS \o DATA_SUMMARY_NEW_COLS)
    IN  IF ref = NoneRef THEN Err("AttributeError", "validate", "DescribeDataset")
        ELSE IF sess.data_summary = None
        THEN Err("ValueError", "validate", "DescribeDataset")
        ELSE IF ~(summary_cols \subseteq Range(sess.data_summary.columns))
        THEN ErrCols("ValueError", "validate", "DescribeDataset",
                     summary_cols \ Range(sess.data_summary.columns),
                     Range(sess.data_summary.columns) \ summary_cols)
        ELSE NoError

DescribeValidate(ref, sess) ==
    LET summary_cols == Range(DATA_SUMMARY_COLS \o DATA_SUMMARY_NEW_COLS)
    IN  IF ref = NoneRef THEN Err("AttributeError", "validate", "DescribeDataset")
        ELSE IF sess.data_summary = None
        THEN Err("ValueError", "validate", "DescribeDataset")
        ELSE IF Range(sess.data_summary.columns) # summary_cols
        THEN ErrCols("ValueError", "validate", "DescribeDataset",
                     summary_cols \ Range(sess.data_summary.columns),
                     Range(sess.data_summary.columns) \ summary_cols)
        ELSE NoError

TyperValidate(ref, sess) ==
    IF ref = NoneRef \/ sess.data_summary = None
    THEN Err("AttributeError", "validate", "DataTyperStage")
    ELSE LET missing == {c \in Range(DATA_SUMMARY_TYPE_COLS) : c \notin Range(sess.data_summary.columns)}
         IN  IF missing # {}
             THEN ErrCols("ValueError", "validate", "DataTyperStage", missing, {})
             ELSE NoError

Validate(s, ref, sess) ==
    CASE s = "DefineDataset" -> DefineValidate(ref, sess)
      [] s = "DescribeDataset" -> DescribeValidate(ref, sess)
      [] s = "DataTyperStage" -> TyperValidate(ref, sess)

(* What a validate_stage_output that does not raise returns: the three
   stages' validators have no return statement. *)
ValidateReturn(s, ref) == NoneRef

(* ChainBuilder.validate_stage_output, reached by super() from ChainStage: `pass` *)
AbstractValidate(ref, sess) == NoError

(* -------------------------- ChainStage.forward -------------------------- *)
(* Variant: the successor branch is taken whether or not a successor exists. *)
EngineIf_Always ==
    /\ pc = "eng_if"
    /\ pc' = "eng_update"
    /\ UNCHANGED <<next_stage, pipe, session, agent, entry, cur, arg, result, error, visited, before>>
    /\ UNCHANGED <<offchain, linkvars, first_run>>

(* Variant: the branch is taken only while agent.state is still None. *)
EngineIf_StateGated ==
    /\ pc = "eng_if"
    /\ pc' = IF next_stage[cur] # NoStage /\ agent.state = NoState
             THEN "eng_update" ELSE "eng_terminal"
    /\ UNCHANGED <<next_stage, pipe, session, agent, entry, cur, arg, result, error, visited, before>>
    /\ UNCHANGED <<offchain, linkvars, first_run>>

(* `if self._next_stage:` *)
EngineIf ==
    /\ pc = "eng_if"
    /\ pc' = IF next_stage[cur] # NoStage THEN "eng_update" ELSE "eng_terminal"
    /\ UNCHANGED <<next_stage, pipe, session, agent, entry, cur, arg, result, error, visited, before>>
    /\ UNCHANGED <<offchain, linkvars, first_run>>

(* Variant: agent.state is set to the class name of self, not of the successor. *)
UpdateAgentState_Self(s) == [agent EXCEPT !.state = s]

(* update_agent_state: agent.state = qualified class name of self._next_stage *)
UpdateAgentState(s) == [agent EXCEPT !.state = IF next_stage[s] = NoStage THEN "NoneType" ELSE next_stage[s]]

(* `agent = self.update_agent_state(agent)` *)
EngineUpdate ==
    /\ pc = "eng_update"
    /\ agent' = UpdateAgentState(cur)
    /\ pc' = "eng_validate"
    /\ UNCHANGED <<next_stage, pipe, session, entry, cur, arg, result, error, visited, before>>
    /\ UNCHANGED <<offchain, linkvars, first_run>>

(* Variant: the validator's exception is swallowed and the chain goes on. *)
EngineValidate_Swallow ==
    /\ pc = "eng_validate"
    /\ LET e == Validate(cur, arg, session)
       IN  /\ arg' = NoneRef
           /\ visited' = [visited EXCEPT ![Len(visited)].validated = (e = NoError)]
           /\ pc' = "eng_delegate"
           /\ UNCHANGED <<result, error>>
    /\ UNCHANGED <<next_stage, pipe, session, agent, entry, cur, before>>
    /\ UNCHANGED <<offchain, linkvars, first_run>>

(* `session = self.validate_stage_output(session)` *)
EngineValidate ==
    /\ pc = "eng_validate"
    /\ LET e == Validate(cur, arg, session)
       IN  IF e # NoError
           THEN Raise(e) /\ UNCHANGED <<arg, visited>>
           ELSE /\ arg' = ValidateReturn(cur, arg)
                /\ visited' = [visited EXCEPT ![Len(visited)].validated = TRUE]
                /\ pc' = "eng_delegate"
                /\ UNCHANGED <<result, error>>
    /\ UNCHANGED <<next_stage, pipe, session, agent, entry, cur, before>>
    /\ UNCHANGED <<offchain, linkvars, first_run>>

(* Variant: the link is cleared once the run has gone through it. *)
EngineDelegate_Unlinks ==
    /\ pc = "eng_delegate"
    /\ EnterStage(entry, next_stage[cur], EngineArity, arg, "delegation")
    /\ next_stage' = [next_stage EXCEPT ![cur] = NoStage]
    /\ UNCHANGED <<pipe, session, agent, entry, before>>
    /\ UNCHANGED <<offchain, linkvars, first_run>>

(* `return self._next_stage.forward(agent, session)` *)
EngineDelegate ==
    /\ pc = "eng_delegate"
    /\ EnterStage(entry, next_stage[cur], EngineArity, arg, "delegation")
    /\ UNCHANGED <<next_stage, pipe, session, agent, entry, before>>
    /\ UNCHANGED <<offchain, linkvars, first_run>>

(* No successor: `super().validate_stage_output(session); return None` *)
EngineTerminal ==
    /\ pc = "eng_terminal"
    /\ LET e == AbstractValidate(arg, session)
       IN  IF e # NoError
           THEN Raise(e)
           ELSE /\ result' = NoneRef
                /\ pc' = "done"
                /\ UNCHANGED error
    /\ UNCHANGED <<next_stage, pipe, session, agent, entry, cur, arg, visited, before>>
    /\ UNCHANGED <<offchain, linkvars, first_run>>


(* ------------------------------ callers --------------------------------- *)
(* Variant: the receiver is returned, not the stage that was set. *)
SetNextStage_ReturnsSelf(s, nxt) ==
    /\ pc = "idle"
    /\ next_stage' = [next_stage EXCEPT ![s] = nxt]
    /\ recv' = s
    /\ ret' = s
    /\ UNCHANGED <<offchain, first_run>>
    /\ UNCHANGED <<pipe, session, agent, pc, entry, cur, arg, result, error, visited, before>>

(* stage.set_next_stage(nxt): `self._next_stage = stage; return stage` *)
SetNextStage(s, nxt) ==
    /\ pc = "idle"
    /\ next_stage' = [next_stage EXCEPT ![s] = nxt]
    /\ recv' = s
    /\ ret' = nxt
    /\ UNCHANGED <<offchain, first_run>>
    /\ UNCHANGED <<pipe, session, agent, pc, entry, cur, arg, result, error, visited, before>>

(* A request builds a fresh SessionProfiler around its data. *)
NewSession(data) ==
    /\ pc = "idle"
    /\ session' = NewSessionRecord(data)
    /\ UNCHANGED <<next_stage, pipe, agent, pc, entry, cur, arg, result, error, visited, before>>
    /\ UNCHANGED <<offchain, linkvars, first_run>>

(* stage.forward(session), as DataExplorer's docstring and the tests call it *)
CallForward1(s) ==
    /\ pc = "idle"
    /\ entry' = "forward1"
    /\ EnterStage("forward1", s, 1, SessionRef, "call")
    /\ before' = CallOf(s)
    /\ UNCHANGED <<next_stage, pipe, session, agent>>
    /\ UNCHANGED <<offchain, linkvars, first_run>>

(* stage.forward(agent, session) *)
CallForward2(s) ==
    /\ pc = "idle"
    /\ entry' = "forward2"
    /\ EnterStage("forward2", s, 2, SessionRef, "call")
    /\ before' = CallOf(s)
    /\ UNCHANGED <<next_stage, pipe, session, agent>>
    /\ UNCHANGED <<offchain, linkvars, first_run>>

(* ChainStage.forward entered on stage s with both arguments bound, the call
   a stage's own forward is written to end with. *)
CallEngine(s) ==
    /\ pc = "idle"
    /\ entry' = "engine"
    /\ cur' = s
    /\ arg' = SessionRef
    /\ visited' = <<Visit(s, "engine", SessionRef)>>
    /\ result' = "pending"
    /\ error' = NoError
    /\ pc' = "eng_if"
    /\ before' = CallOf(s)
    /\ UNCHANGED <<next_stage, pipe, session, agent>>
    /\ UNCHANGED <<offchain, linkvars, first_run>>

(* Variant: the validator clears the summary it rejects. *)
CallValidate_Clearing(s) ==
    /\ pc = "idle"
    /\ entry' = "validate"
    /\ cur' = s
    /\ arg' = SessionRef
    /\ visited' = << >>
    /\ LET e == Validate(s, SessionRef, session)
       IN  IF e # NoError
           THEN /\ RaiseIn("validate", e)
                /\ session' = [session EXCEPT !.data_summary = None]
           ELSE /\ result' = ValidateReturn(s, SessionRef)
                /\ error' = NoError
                /\ pc' = "done"
                /\ UNCHANGED session
    /\ before' = CallOf(s)
    /\ UNCHANGED <<next_stage, pipe, agent>>
    /\ UNCHANGED <<offchain, linkvars, first_run>>

(* stage.validate_stage_output(session), called on its own *)
CallValidate(s) ==
    /\ pc = "idle"
    /\ entry' = "validate"
    /\ cur' = s
    /\ arg' = SessionRef
    /\ visited' = << >>
    /\ LET e == Validate(s, SessionRef, session)
       IN  IF e # NoError
           THEN RaiseIn("validate", e)
           ELSE /\ result' = ValidateReturn(s, SessionRef)
                /\ error' = NoError
                /\ pc' = "done"
    /\ before' = CallOf(s)
    /\ UNCHANGED <<next_stage, pipe, session, agent>>
    /\ UNCHANGED <<offchain, linkvars, first_run>>

(* BasementPipe.reset(pipeline) *)
BasementReset(p) ==
    /\ pc = "idle"
    /\ pipe' = p
    /\ UNCHANGED <<next_stage, session, agent, pc, entry, cur, arg, result, error, visited, before>>
    /\ UNCHANGED <<offchain, linkvars, first_run>>

(* BasementPipe.run(agent=..., session=...): the try block up to `self.pipe.forward(agent, session)` *)
BasementRun(hasAgent, hasSession) ==
    /\ pc = "idle"
    /\ entry' = "basement"
    /\ IF pipe = NoStage
       THEN /\ RaiseIn("basement", Err("RuntimeError", "basement", NoStage))
            /\ cur' = NoStage /\ arg' = NoneRef /\ visited' = << >>
       ELSE IF ~hasAgent \/ ~hasSession
       THEN /\ RaiseIn("basement", Err("TypeError", "basement", NoStage))
            /\ cur' = NoStage /\ arg' = NoneRef /\ visited' = << >>
       ELSE EnterStage("basement", pipe, EngineArity, SessionRef, "call")
    /\ before' = CallOf(pipe)
    /\ UNCHANGED <<next_stage, pipe, session, agent>>
    /\ UNCHANGED <<offchain, linkvars, first_run>>

(* `except Exception as e: raise e` *)
BasementExcept ==
    /\ pc = "bp_except"
    /\ pc' = "done"
    /\ UNCHANGED <<next_stage, pipe, session, agent, entry, cur, arg, result, error, visited, before>>
    /\ UNCHANGED <<offchain, linkvars, first_run>>

(* The caller has its result or its exception; the objects live on. *)
Return ==
    /\ pc = "done"
    /\ first_run' = NoRun
    /\ pc' = "idle"
    /\ entry' = "none"
    /\ cur' = NoStage
    /\ arg' = NoneRef
    /\ result' = "pending"
    /\ error' = NoError
    /\ visited' = << >>
    /\ before' = NoCall
    /\ UNCHANGED <<next_stage, pipe, session, agent>>
    /\ UNCHANGED <<offchain, linkvars>>

(* The finished run as the next run will be compared with it *)
RunRecord ==
    [entry |-> entry, head |-> before.head, chain |-> next_stage,
     session |-> before.session, agent |-> before.agent,
     stages |-> [i \in 1..Len(visited) |-> visited[i].stage],
     error |-> error, result |-> result, after |-> session]

(* The caller keeps the outcome of the run and sets up, for the next run, a
   session equal to the one this run was given; the agent is left as the run
   left it. *)
TwinRestart ==
    /\ pc = "done"
    /\ first_run' = RunRecord
    /\ session' = before.session
    /\ pc' = "idle"
    /\ entry' = "none"
    /\ cur' = NoStage
    /\ arg' = NoneRef
    /\ result' = "pending"
    /\ error' = NoError
    /\ visited' = << >>
    /\ before' = NoCall
    /\ UNCHANGED <<next_stage, pipe, agent, offchain, linkvars>>

Next ==
    \/ \E l \in LinkCalls : SetNextStage(l[1], l[2])
    \/ \E d \in InputTables \cup {None} : NewSession(d)
    \/ \E s \in Stages : CallForward1(s)
    \/ \E s \in Stages : CallForward2(s)
    \/ \E s \in Stages : CallEngine(s)
    \/ \E s \in Stages : CallValidate(s)
    \/ \E p \in Stages \cup {NoStage} : BasementReset(p)
    \/ \E a, b \in BOOLEAN : BasementRun(a, b)
    \/ BasementExcept
    \/ DefineForwardPre
    \/ DefineForwardBody
    \/ DescribeForwardPre
    \/ DescribeForwardDescribe
    \/ DescribeForwardMeta
    \/ TyperForwardPre
    \/ TyperForwardBody
    \/ StageSuperForward
    \/ EngineIf
    \/ EngineUpdate
    \/ EngineValidate
    \/ EngineDelegate
    \/ EngineTerminal
    \/ Return

Spec == Init /\ [][Next]_vars

(* ------------------------ building chains ------------------------------- *)
(* x.set_next_stage(nxt) where x is what the previous set_next_stage call
   returned: the second call of a.set_next_stage(b).set_next_stage(c) *)
SetNextChained(nxt) ==
    /\ ret # NoStage
    /\ SetNextStage(ret, nxt)

(* Any stage linked to any stage, by separate calls or by chained ones *)
ChainNext ==
    \/ \E s, nxt \in Stages : SetNextStage(s, nxt)
    \/ \E nxt \in Stages : SetNextChained(nxt)

ChainSpec == Init /\ [][ChainNext]_vars

(* --------------------------- the tool registry -------------------------- *)
(* Bound: how many distinct functions carry the same __name__ *)
MaxVersions == 2

WorkflowNames == {"statistical_methods", "missing_val_resolver"}

ToolNames == {"littles_mcar_test", "heckman_selection"}

(* A function object: its __name__ and which of the functions of that name it is *)
Funcs == [name : ToolNames, version : 1..MaxVersions]

NoFunc == [name |-> "none", version |-> 0]

(* d[k] = v on a dict *)
Put(d, k, v) == [x \in DOMAIN d \cup {k} |-> IF x = k THEN v ELSE d[x]]

(* The metadata record __call__ stores for func *)
Meta(func) ==
    [type |-> "function",
     function |-> [name |-> func.name, callable |-> func]]

NoMeta == [type |-> "none", function |-> [name |-> "none", callable |-> NoFunc]]

(* The outcome of a lookup: the value returned, or the ValueError raised and
   the requested names its message contains *)
Returned(v) == [raised |-> FALSE, mentions |-> {}, value |-> v]

RaisedValueError(names, none) == [raised |-> TRUE, mentions |-> names, value |-> none]

(* Actuator.get_action on the callable table as_: action_space(workflow_name)
   raises for an unknown workflow, then the membership test for the tool *)
GetAction(as_, workflow_name, function_name) ==
    IF workflow_name \notin DOMAIN as_
    THEN RaisedValueError({workflow_name}, NoFunc)
    ELSE IF function_name \notin DOMAIN as_[workflow_name]
    THEN RaisedValueError({function_name}, NoFunc)
    ELSE Returned(as_[workflow_name][function_name])

(* Actuator.get_meta on the metadata table wf *)
GetMeta(wf, workflow_name, function_name) ==
    IF workflow_name \notin DOMAIN wf \/ function_name \notin DOMAIN wf[workflow_name]
    THEN RaisedValueError({function_name}, NoMeta)
    ELSE Returned(wf[workflow_name][function_name])

RegOp(op, w, tool, func, outcome) ==
    [op |-> op, workflow |-> w, tool |-> tool, func |-> func, outcome |-> outcome]

(* Variant: the constructor starts the workflow's buckets afresh every time. *)
Construct_Reset(w) ==
    /\ workflow' = Put(workflow, w, << >>)
    /\ action_space' = Put(action_space, w, << >>)
    /\ reg_op' = RegOp("construct", w, "none", NoFunc, Returned(NoFunc))
    /\ UNCHANGED <<next_stage, pipe, session, agent, pc, entry, cur, arg, result, error,
                   visited, before, linkvars, first_run, offreg>>

(* Actuator(workflow): empty buckets for a name seen for the first time *)
Construct(w) ==
    /\ IF w \notin DOMAIN workflow
       THEN /\ workflow' = Put(workflow, w, << >>)
            /\ action_space' = Put(action_space, w, << >>)
       ELSE UNCHANGED <<workflow, action_space>>
    /\ reg_op' = RegOp("construct", w, "none", NoFunc, Returned(NoFunc))
    /\ UNCHANGED <<next_stage, pipe, session, agent, pc, entry, cur, arg, result, error,
                   visited, before, linkvars, first_run, offreg>>

(* Variant: the workflow's buckets are rebound to the one new tool. *)
Decorate_Rebind(w, func) ==
    /\ w \in DOMAIN workflow
    /\ workflow' = Put(workflow, w, Put(<< >>, func.name, Meta(func)))
    /\ action_space' = Put(action_space, w, Put(<< >>, func.name, func))
    /\ reg_op' = RegOp("decorate", w, func.name, func, Returned(func))
    /\ UNCHANGED <<next_stage, pipe, session, agent, pc, entry, cur, arg, result, error,
                   visited, before, linkvars, first_run, offreg>>

(* Variant: only the callable is stored, the metadata is not. *)
Decorate_CallableOnly(w, func) ==
    /\ w \in DOMAIN workflow
    /\ action_space' = Put(action_space, w, Put(action_space[w], func.name, func))
    /\ reg_op' = RegOp("decorate", w, func.name, func, Returned(func))
    /\ UNCHANGED workflow
    /\ UNCHANGED <<next_stage, pipe, session, agent, pc, entry, cur, arg, result, error,
                   visited, before, linkvars, first_run, offreg>>

(* Variant: every workflow shares the one pair of buckets. *)
Decorate_Shared(w, func) ==
    /\ w \in DOMAIN workflow
    /\ workflow' = [x \in DOMAIN workflow |-> Put(workflow[x], func.name, Meta(func))]
    /\ action_space' = [x \in DOMAIN action_space |-> Put(action_space[x], func.name, func)]
    /\ reg_op' = RegOp("decorate", w, func.name, func, Returned(func))
    /\ UNCHANGED <<next_stage, pipe, session, agent, pc, entry, cur, arg, result, error,
                   visited, before, linkvars, first_run, offreg>>

(* Variant: the metadata of a name that is already registered is kept. *)
Decorate_KeepsFirstMeta(w, func) ==
    /\ w \in DOMAIN workflow
    /\ workflow' = IF func.name \in DOMAIN workflow[w] THEN workflow
                   ELSE Put(workflow, w, Put(workflow[w], func.name, Meta(func)))
    /\ action_space' = Put(action_space, w, Put(action_space[w], func.name, func))
    /\ reg_op' = RegOp("decorate", w, func.name, func, Returned(func))
    /\ UNCHANGED <<next_stage, pipe, session, agent, pc, entry, cur, arg, result, error,
                   visited, before, linkvars, first_run, offreg>>

(* instance(func) for an instance whose current_workflow is w: the metadata
   and the callable are stored under func.__name__ *)
Decorate(w, func) ==
    /\ w \in DOMAIN workflow
    /\ workflow' = Put(workflow, w, Put(workflow[w], func.name, Meta(func)))
    /\ action_space' = Put(action_space, w, Put(action_space[w], func.name, func))
    /\ reg_op' = RegOp("decorate", w, func.name, func, Returned(func))
    /\ UNCHANGED <<next_stage, pipe, session, agent, pc, entry, cur, arg, result, error,
                   visited, before, linkvars, first_run, offreg>>

(* Actuator.get_action(w, t) called *)
CallGetAction(w, t) ==
    /\ reg_op' = RegOp("get_action", w, t, NoFunc, GetAction(action_space, w, t))
    /\ UNCHANGED <<workflow, action_space>>
    /\ UNCHANGED <<next_stage, pipe, session, agent, pc, entry, cur, arg, result, error,
                   visited, before, linkvars, first_run, offreg>>

(* Actuator.get_meta(w, t) called *)
CallGetMeta(w, t) ==
    /\ reg_op' = RegOp("get_meta", w, t, NoFunc, GetMeta(workflow, w, t))
    /\ UNCHANGED <<workflow, action_space>>
    /\ UNCHANGED <<next_stage, pipe, session, agent, pc, entry, cur, arg, result, error,
                   visited, before, linkvars, first_run, offreg>>

RegInit ==
    /\ Init
    /\ session.data = None

RegNext ==
    \/ \E w \in WorkflowNames : Construct(w)
    \/ \E w \in WorkflowNames, func \in Funcs : Decorate(w, func)
    \/ \E w \in WorkflowNames, t \in ToolNames : CallGetAction(w, t)
    \/ \E w \in WorkflowNames, t \in ToolNames : CallGetMeta(w, t)

RegSpec == RegInit /\ [][RegNext]_vars

(* ------------------- the schema of a decorated function ----------------- *)
(* Bound: the number of parameters of a decorated function *)
MaxParams == 2

ParamNames == {"df", "alpha", "k"}

(* What get_type_hints gives for a parameter: a type, or nothing when the
   parameter carries no annotation *)
Annotations == {"int", "float", "bool", "str", "list", "missing"}

(* inspect.signature(func).parameters: distinct names in declaration order,
   each with its annotation and whether it has a default value *)
Signatures ==
    {s \in SeqsUpTo([name : ParamNames, annotation : Annotations, has_default : BOOLEAN],
                    MaxParams) :
        \A i, j \in 1..Len(s) : s[i].name = s[j].name => i = j}

(* Variant: bool is taken for an int, as isinstance would. *)
WireType_BoolIsInt(annotation) ==
    CASE annotation \in {"int", "bool"} -> "integer"
      [] annotation = "float" -> "number"
      [] OTHER -> "string"

(* The if/elif ladder over `annotation = type_hints.get(param_name, str)` *)
WireType(annotation) ==
    CASE annotation = "int" -> "integer"
      [] annotation = "float" -> "number"
      [] annotation = "bool" -> "boolean"
      [] OTHER -> "string"

(* `if param.default == inspect._empty: required.append(param_name)`, over
   the parameters in order *)
RECURSIVE Required(_)
Required(s) ==
    IF s = << >> THEN << >>
    ELSE (IF Head(s).has_default THEN << >> ELSE <<Head(s).name>>) \o Required(Tail(s))

(* properties[param_name] = {"type": arg_type, ...} *)
Properties(s) ==
    [p \in {s[i].name : i \in 1..Len(s)} |->
        LET i == CHOOSE k \in 1..Len(s) : s[k].name = p
        IN  [type |-> WireType(s[i].annotation)]]

(* The "parameters" record of the stored metadata *)
Parameters(s) == [type |-> "object", required |-> Required(s), properties |-> Properties(s)]

(* A function with signature s is decorated *)
DecorateSignature(s) ==
    /\ schema = NoSchema
    /\ sig' = s
    /\ schema' = Parameters(s)
    /\ UNCHANGED <<chainvars, regvars, spinevars, apivars>>

SchemaNext == \E s \in Signatures : DecorateSignature(s)

SchemaInit ==
    /\ Init
    /\ session.data = None

SchemaSpec == SchemaInit /\ [][SchemaNext]_vars

(* ------------------------- Spine and its loops -------------------------- *)
(* Bound: the run calls started on one instance *)
MaxCalls == 3

SpineClasses == {"DataMetaSummary", "DataTyper", "NumericTyper"}

(* The content of the ChatResponse a run call works with: the text the
   stand-in response carries, or another answer of the model *)
Replies == {LLMReply, "numeric", "binary"}

(* The columns of the sample a run_loop is given *)
SampleColumns == {SubSeq(ColumnNames, 1, n) : n \in 0..Min(MaxCols, Len(ColumnNames))}

ClassOf(inst) == IF inst = "numTyper" THEN "NumericTyper" ELSE spine_cls

(* str.lower() on the answers used here *)
Lower(s) ==
    CASE s = "Binary" -> "binary"
      [] s = "Continuous" -> "continuous"
      [] s = "NOMINAL" -> "nominal"
      [] OTHER -> s

(* The list NumericTyper.post_process tests the lowered answer against *)
NumericLabels == {"continous", "binary", "multi", "ordinal", "nominal"}

(* post_process: Spine's returns the content; NumericTyper's returns it when
   the lowered content is not in the list and raises ValueError when it is *)
PostProcess(cls, output) ==
    IF cls = "NumericTyper" /\ ~(Lower(output) \notin NumericLabels)
    THEN [raised |-> TRUE, error |-> "ValueError", value |-> "none"]
    ELSE [raised |-> FALSE, error |-> "none", value |-> output]

Bump(inst, field) == [tally EXCEPT ![inst][field] = @ + 1]

(* An exception leaves the run call in progress: into run_loop's except
   clause, or to the caller of run *)
SpineRaise(e) ==
    /\ call_end' = [call_end EXCEPT !.raised = TRUE, !.error = e,
                                    !.at = IF frame.in_loop THEN "run" ELSE "caller"]
    /\ spc' = IF frame.in_loop THEN "loop_except" ELSE "idle"
    /\ tally' = Bump(frame.inst, "raised")

(* cls(): Spine.__init__ gives the new instance an empty history *)
NewSpine(cls) ==
    /\ spc = "idle"
    /\ spine_cls' = cls
    /\ history' = [i \in Instances |-> << >>]
    /\ current' = [i \in Instances |-> NoEntry]
    /\ tally' = [i \in Instances |-> NoTally]
    /\ frame' = NoFrame
    /\ loop' = NoLoop
    /\ calls' = << >>
    /\ call_end' = NoOutcome
    /\ UNCHANGED spc
    /\ UNCHANGED <<chainvars, regvars, schemavars, apivars>>

(* self.run(client, ...) called for one column label *)
RunCall(label) ==
    /\ spc = "idle"
    /\ spine_cls # "none"
    /\ tally["self"].started < MaxCalls
    /\ frame' = [inst |-> "self", label |-> label, in_loop |-> FALSE, reply |-> "none"]
    /\ loop' = NoLoop
    /\ calls' = << <<"self", label>> >>
    /\ call_end' = [NoOutcome EXCEPT !.op = "run", !.arg = label]
    /\ tally' = Bump("self", "started")
    /\ spc' = "run_pre"
    /\ UNCHANGED <<spine_cls, history, current>>
    /\ UNCHANGED <<chainvars, regvars, schemavars, apivars>>

(* input_kwargs = self.pre_process(...); msg = self.prompt.build_message(...):
   the message is built, or the configured template refuses the arguments *)
RunPre ==
    /\ spc = "run_pre"
    /\ \E ok \in BOOLEAN :
         IF ok
         THEN spc' = "run_input" /\ UNCHANGED <<call_end, tally>>
         ELSE SpineRaise("ExternalError")
    /\ UNCHANGED <<spine_cls, history, current, frame, loop, calls>>
    /\ UNCHANGED <<chainvars, regvars, schemavars, apivars>>

(* self._input_listener(msg, ...) *)
RunInputListener ==
    /\ spc = "run_input"
    /\ IF current[frame.inst] # NoEntry
       THEN SpineRaise("ValueError") /\ UNCHANGED current
       ELSE /\ current' = [current EXCEPT ![frame.inst] =
                              [function |-> ClassOf(frame.inst), input |-> frame.label,
                               output |-> "none"]]
            /\ spc' = "run_output"
            /\ UNCHANGED <<call_end, tally>>
    /\ UNCHANGED <<spine_cls, history, frame, loop, calls>>
    /\ UNCHANGED <<chainvars, regvars, schemavars, apivars>>

(* Variant: the holder is appended but not cleared. *)
RunOutputListener_KeepsCurrent ==
    /\ spc = "run_output"
    /\ \E reply \in Replies :
         IF current[frame.inst] = NoEntry
         THEN SpineRaise("ValueError") /\ UNCHANGED <<history, frame>>
         ELSE /\ history' = [history EXCEPT ![frame.inst] =
                                Append(@, [current[frame.inst] EXCEPT !.output = reply])]
              /\ frame' = [frame EXCEPT !.reply = reply]
              /\ spc' = "run_post"
              /\ UNCHANGED <<call_end, tally>>
    /\ UNCHANGED <<spine_cls, loop, calls, current>>
    /\ UNCHANGED <<chainvars, regvars, schemavars, apivars>>

(* Variant: the finished holder replaces the last entry of the history. *)
RunOutputListener_Overwrites ==
    /\ spc = "run_output"
    /\ \E reply \in Replies :
         IF current[frame.inst] = NoEntry
         THEN SpineRaise("ValueError") /\ UNCHANGED <<history, current, frame>>
         ELSE /\ history' = [history EXCEPT ![frame.inst] =
                   IF @ = << >> THEN <<[current[frame.inst] EXCEPT !.output = reply]>>
                   ELSE [@ EXCEPT ![Len(@)] = [current[frame.inst] EXCEPT !.output = reply]]]
              /\ current' = [current EXCEPT ![frame.inst] = NoEntry]
              /\ frame' = [frame EXCEPT !.reply = reply]
              /\ spc' = "run_post"
              /\ UNCHANGED <<call_end, tally>>
    /\ UNCHANGED <<spine_cls, loop, calls>>
    /\ UNCHANGED <<chainvars, regvars, schemavars, apivars>>

(* response = ollama.ChatResponse(...); self._output_listener(response):
   current.output = response; self.add(current); current = None *)
RunOutputListener ==
    /\ spc = "run_output"
    /\ \E reply \in Replies :
         IF current[frame.inst] = NoEntry
         THEN SpineRaise("ValueError") /\ UNCHANGED <<history, current, frame>>
         ELSE /\ history' = [history EXCEPT ![frame.inst] =
                                Append(@, [current[frame.inst] EXCEPT !.output = reply])]
              /\ current' = [current EXCEPT ![frame.inst] = NoEntry]
              /\ frame' = [frame EXCEPT !.reply = reply]
              /\ spc' = "run_post"
              /\ UNCHANGED <<call_end, tally>>
    /\ UNCHANGED <<spine_cls, loop, calls>>
    /\ UNCHANGED <<chainvars, regvars, schemavars, apivars>>

(* Variant: the second classifier is asked about every column. *)
RunPostProcess_AlwaysNumeric ==
    /\ spc = "run_post"
    /\ LET r == PostProcess(ClassOf(frame.inst), frame.reply)
       IN  IF r.raised
           THEN SpineRaise(r.error) /\ UNCHANGED loop
           ELSE /\ tally' = Bump(frame.inst, "returned")
                /\ IF ~frame.in_loop
                   THEN /\ call_end' = [call_end EXCEPT !.value = r.value, !.at = "caller"]
                        /\ spc' = "idle"
                        /\ UNCHANGED loop
                   ELSE IF frame.inst = "self"
                   THEN /\ loop' = [loop EXCEPT
                              !.meta = Put(@, frame.label, r.value),
                              !.i = IF loop.kind = "typer" THEN @ ELSE @ + 1]
                        /\ spc' = IF loop.kind = "typer" THEN "loop_num" ELSE "loop_head"
                        /\ UNCHANGED call_end
                   ELSE /\ loop' = [loop EXCEPT !.meta_num = Put(@, frame.label, r.value),
                                               !.i = @ + 1]
                        /\ spc' = "loop_head"
                        /\ UNCHANGED call_end
    /\ UNCHANGED <<spine_cls, history, current, frame, calls>>
    /\ UNCHANGED <<chainvars, regvars, schemavars, apivars>>

(* return self.post_process(response), and what the caller of run does with
   the value: run_loop stores it under the column and goes on *)
RunPostProcess ==
    /\ spc = "run_post"
    /\ LET r == PostProcess(ClassOf(frame.inst), frame.reply)
       IN  IF r.raised
           THEN SpineRaise(r.error) /\ UNCHANGED loop
           ELSE /\ tally' = Bump(frame.inst, "returned")
                /\ IF ~frame.in_loop
                   THEN /\ call_end' = [call_end EXCEPT !.value = r.value, !.at = "caller"]
                        /\ spc' = "idle"
                        /\ UNCHANGED loop
                   ELSE IF frame.inst = "self"
                   THEN /\ loop' = [loop EXCEPT
                              !.meta = Put(@, frame.label, r.value),
                              !.i = IF loop.kind = "typer" /\ r.value = "numeric" THEN @ ELSE @ + 1]
                        /\ spc' = IF loop.kind = "typer" /\ r.value = "numeric"
                                 THEN "loop_num" ELSE "loop_head"
                        /\ UNCHANGED call_end
                   ELSE /\ loop' = [loop EXCEPT !.meta_num = Put(@, frame.label, r.value),
                                               !.i = @ + 1]
                        /\ spc' = "loop_head"
                        /\ UNCHANGED call_end
    /\ UNCHANGED <<spine_cls, history, current, frame, calls>>
    /\ UNCHANGED <<chainvars, regvars, schemavars, apivars>>

(* self.run_loop(client, ..., data_sample) called, by a test or a script
   (via "direct") or by the stage's forward (via "forward"); DataTyper's
   begins with numTyper = NumericTyper() *)
LoopStart(kind, via, cols) ==
    /\ spc = "idle"
    /\ spine_cls = (IF kind = "meta" THEN "DataMetaSummary" ELSE "DataTyper")
    /\ tally["self"].started + Len(cols) <= MaxCalls
    /\ loop' = [kind |-> kind, via |-> via, cols |-> cols, i |-> 1,
                base |-> Len(history["self"]), meta |-> << >>, meta_num |-> << >>]
    /\ IF kind = "typer"
       THEN /\ history' = [history EXCEPT !["numTyper"] = << >>]
            /\ current' = [current EXCEPT !["numTyper"] = NoEntry]
            /\ tally' = [tally EXCEPT !["numTyper"] = NoTally]
       ELSE UNCHANGED <<history, current, tally>>
    /\ frame' = NoFrame
    /\ calls' = << >>
    /\ call_end' = [NoOutcome EXCEPT !.op = "run_loop", !.arg = kind]
    /\ spc' = "loop_head"
    /\ UNCHANGED spine_cls
    /\ UNCHANGED <<chainvars, regvars, schemavars, apivars>>

(* Variant: the columns are taken from the last to the first. *)
LoopHead_Backwards ==
    /\ spc = "loop_head"
    /\ IF loop.i > Len(loop.cols)
       THEN /\ call_end' = [call_end EXCEPT !.meta = loop.meta, !.meta_num = loop.meta_num,
                               !.at = IF loop.via = "forward" THEN "forward" ELSE "caller"]
            /\ spc' = "idle"
            /\ UNCHANGED <<frame, calls, tally>>
       ELSE /\ frame' = [inst |-> "self", label |-> loop.cols[Len(loop.cols) + 1 - loop.i],
                         in_loop |-> TRUE, reply |-> "none"]
            /\ calls' = Append(calls, <<"self", loop.cols[Len(loop.cols) + 1 - loop.i]>>)
            /\ tally' = Bump("self", "started")
            /\ spc' = "run_pre"
            /\ UNCHANGED call_end
    /\ UNCHANGED <<spine_cls, history, current, loop>>
    /\ UNCHANGED <<chainvars, regvars, schemavars, apivars>>

(* `for col_name in data_sample.columns:` the next column's run call, or
   `return meta` (`return meta, meta_num`) after the last *)
LoopHead ==
    /\ spc = "loop_head"
    /\ IF loop.i > Len(loop.cols)
       THEN /\ call_end' = [call_end EXCEPT !.meta = loop.meta, !.meta_num = loop.meta_num,
                               !.at = IF loop.via = "forward" THEN "forward" ELSE "caller"]
            /\ spc' = "idle"
            /\ UNCHANGED <<frame, calls, tally>>
       ELSE /\ frame' = [inst |-> "self", label |-> loop.cols[loop.i],
                         in_loop |-> TRUE, reply |-> "none"]
            /\ calls' = Append(calls, <<"self", loop.cols[loop.i]>>)
            /\ tally' = Bump("self", "started")
            /\ spc' = "run_pre"
            /\ UNCHANGED call_end
    /\ UNCHANGED <<spine_cls, history, current, loop>>
    /\ UNCHANGED <<chainvars, regvars, schemavars, apivars>>

(* `if meta[col_name] == "numeric": meta_num[col_name] = numTyper.run(...)` *)
LoopNumeric ==
    /\ spc = "loop_num"
    /\ frame' = [inst |-> "numTyper", label |-> loop.cols[loop.i],
                 in_loop |-> TRUE, reply |-> "none"]
    /\ calls' = Append(calls, <<"numTyper", loop.cols[loop.i]>>)
    /\ tally' = Bump("numTyper", "started")
    /\ spc' = "run_pre"
    /\ UNCHANGED <<spine_cls, history, current, loop, call_end>>
    /\ UNCHANGED <<chainvars, regvars, schemavars, apivars>>

(* Variant: the except clause goes on with the next column. *)
LoopExcept_Continues ==
    /\ spc = "loop_except"
    /\ loop' = [loop EXCEPT !.i = @ + 1]
    /\ call_end' = [call_end EXCEPT !.raised = FALSE, !.error = "none", !.at = "none"]
    /\ spc' = "loop_head"
    /\ UNCHANGED <<spine_cls, history, current, frame, calls, tally>>
    /\ UNCHANGED <<chainvars, regvars, schemavars, apivars>>

(* `except Exception as e: raise e` *)
LoopExcept ==
    /\ spc = "loop_except"
    /\ call_end' = [call_end EXCEPT !.at = IF loop.via = "forward" THEN "forward" ELSE "caller"]
    /\ spc' = IF loop.via = "forward" THEN "fwd_unwind" ELSE "idle"
    /\ UNCHANGED <<spine_cls, history, current, frame, loop, calls, tally>>
    /\ UNCHANGED <<chainvars, regvars, schemavars, apivars>>

(* The stage's forward has no handler around run_loop: the exception leaves
   forward for the caller of the chain *)
ForwardUnwind ==
    /\ spc = "fwd_unwind"
    /\ call_end' = [call_end EXCEPT !.at = "caller"]
    /\ spc' = "idle"
    /\ UNCHANGED <<spine_cls, history, current, frame, loop, calls, tally>>
    /\ UNCHANGED <<chainvars, regvars, schemavars, apivars>>

(* The answers post_process is tried on *)
Answers ==
    {"continuous", "Continuous", "continous", "binary", "Binary", "multi", "ordinal",
     "nominal", "NOMINAL", "numeric", LLMReply}

(* self.post_process(response) called on its own, on a new instance *)
CallPostProcess(answer) ==
    /\ spc = "idle"
    /\ spine_cls # "none"
    /\ tally["self"].started = 0
    /\ LET r == PostProcess(spine_cls, answer)
       IN  call_end' = [NoOutcome EXCEPT !.op = "post_process", !.arg = answer,
                           !.raised = r.raised, !.error = r.error, !.value = r.value,
                           !.at = "caller"]
    /\ UNCHANGED <<spine_cls, history, current, spc, frame, loop, calls, tally>>
    /\ UNCHANGED <<chainvars, regvars, schemavars, apivars>>

SpineInit ==
    /\ BaseInit({None})
    /\ SpineNew
    /\ ApiAbsent

SpineNext ==
    \/ \E cls \in SpineClasses : NewSpine(cls)
    \/ \E label \in Range(ColumnNames) : RunCall(label)
    \/ RunPre
    \/ RunInputListener
    \/ RunOutputListener
    \/ RunPostProcess
    \/ \E kind \in {"meta", "typer"}, via \in {"direct", "forward"}, cols \in SampleColumns :
          LoopStart(kind, via, cols)
    \/ LoopHead
    \/ LoopNumeric
    \/ LoopExcept
    \/ ForwardUnwind
    \/ \E answer \in Answers : CallPostProcess(answer)

SpineSpec == SpineInit /\ [][SpineNext]_vars

(* ----------------- pairs of runs on equal sessions ---------------------- *)
(* The sessions the paired runs are given *)
TwinData == {None, Frame(<<"age">>, [c \in {"age"} |-> <<"x">>])}

(* As Init, with one of the sessions the paired runs are given *)
TwinInit ==
    /\ Init
    /\ session.data \in TwinData

TwinNext ==
    \/ \E l \in LinkCalls : SetNextStage(l[1], l[2])
    \/ \E s \in Stages : CallForward1(s)
    \/ \E s \in Stages : CallForward2(s)
    \/ \E s \in Stages : CallEngine(s)
    \/ DefineForwardPre
    \/ DefineForwardBody
    \/ DescribeForwardPre
    \/ DescribeForwardDescribe
    \/ DescribeForwardMeta
    \/ TyperForwardPre
    \/ TyperForwardBody
    \/ StageSuperForward
    \/ EngineIf
    \/ EngineUpdate
    \/ EngineValidate
    \/ EngineDelegate
    \/ EngineTerminal
    \/ Return
    \/ TwinRestart

TwinSpec == TwinInit /\ [][TwinNext]_vars

(* --------------------- the summary of a given table --------------------- *)
(* Bound: the rows of a table whose summary is examined *)
MaxCells == 3

SummaryValues == {NullCell, "x", "y"}

SummaryColumns == <<"age", "city">>

(* Tables of one or two columns, every column 0..MaxCells cells long *)
SummaryTables ==
    UNION { UNION { { Frame(SubSeq(SummaryColumns, 1, nc), cells)
                        : cells \in [Range(SubSeq(SummaryColumns, 1, nc)) -> SeqsOfLen(SummaryValues, nr)] }
                    : nr \in 0..MaxCells }
            : nc \in 1..Len(SummaryColumns) }

(* SessionProfiler(data=df) for one such table; DefineDataset().forward(session) *)
SummaryInit ==
    /\ BaseInit(SummaryTables)
    /\ SpineAbsent
    /\ ApiAbsent

SummaryNext ==
    \/ CallForward1("DefineDataset")
    \/ DefineForwardPre
    \/ DefineForwardBody
    \/ StageSuperForward
    \/ Return

SummarySpec == SummaryInit /\ [][SummaryNext]_vars

(* ------------------------- ConnectionManager ---------------------------- *)
(* One ConnectionManager, as dashboard.py creates it.  Time is counted in
   ticks; session_timeout is TimeoutTicks of them. *)
RoomIds == {"r1", "r2"}

(* Bound: the countdown tasks created for one room id *)
MaxTimers == 2

(* Bound: session_timeout, in ticks *)
TimeoutTicks == 2

(* The coroutines that use the manager: request handlers calling add, remove
   and reset_countdown, and the countdown tasks, named by room id and number *)
Handlers == {<<"handler", 1>>, <<"handler", 2>>}

Timers == {<<r, g>> : r \in RoomIds, g \in 1..MaxTimers}

Actors == Handlers \cup Timers

NoActor == <<"none", 0>>

NoOp == [name |-> "none", room |-> "none"]

(* ConnectionManager(): no room, the lock free; no task exists.  since is the
   time a room has been in rooms since its add or its last reset_countdown,
   resets the reset_countdown calls that restarted its timer *)
NewManager ==
    [rooms |-> {}, total_active |-> 0, lock |-> NoActor, waiters |-> << >>,
     event |-> [r \in RoomIds |-> "none"],
     task |-> [r \in RoomIds |-> 0],
     made |-> [r \in RoomIds |-> 0],
     pc |-> [a \in Actors |-> IF a \in Handlers THEN "idle" ELSE "none"],
     op |-> [a \in Actors |-> NoOp],
     awaiting |-> [a \in Actors |-> NoActor],
     slept |-> [t \in Timers |-> 0],
     since |-> [r \in RoomIds |-> 0],
     resets |-> [r \in RoomIds |-> 0]]

(* The coroutine returns: a handler is free for its next request, a countdown
   task is done *)
Leave(m, a) ==
    [m EXCEPT !.pc[a] = IF a \in Handlers THEN "idle" ELSE "done",
              !.op[a] = NoOp, !.awaiting[a] = NoActor,
              !.slept = IF a \in Timers THEN [@ EXCEPT ![a] = 0] ELSE @]

(* The end of `async with self.lock` *)
Release(m) == [m EXCEPT !.lock = NoActor]

(* asyncio.create_task(self._countdown(room_id)) stored in room.countdown_task *)
CreateTask(m, r) ==
    LET g == m.made[r] + 1
    IN  [m EXCEPT !.made[r] = g, !.task[r] = g, !.pc[<<r, g>>] = "sleep",
                  !.slept[<<r, g>>] = 0, !.since[r] = 0]

TaskOf(m, r) == <<r, m.task[r]>>

(* `room.countdown_task and not room.countdown_task.done()` *)
TaskPending(m, r) == m.task[r] # 0 /\ m.pc[TaskOf(m, r)] # "done"

(* task.cancel() on a task that sleeps, that was woken and has not run yet,
   or that waits for the lock: CancelledError is thrown into it at its next
   step, and its place in the lock's queue is given up *)
Cancel(m, t) ==
    [m EXCEPT !.pc[t] = "cancelling", !.waiters = SelectSeq(@, LAMBDA x : x # t)]

(* add, after the presence test *)
FinishAdd(m, a, r) ==
    Leave(Release(CreateTask([m EXCEPT !.event[r] = "clear", !.rooms = @ \cup {r},
                                       !.total_active = @ + 1], r)), a)

(* Variant: the count is kept when a room is removed. *)
FinishRemove_KeepsCount(m, a, r) ==
    Leave(Release([m EXCEPT !.event[r] = "set", !.rooms = @ \ {r},
                            !.task[r] = 0, !.since[r] = 0]), a)

(* remove, after the countdown was dealt with: room.event.set();
   del self.rooms[room_id]; total_active = max(0, total_active - 1) *)
FinishRemove(m, a, r) ==
    Leave(Release([m EXCEPT !.event[r] = "set", !.rooms = @ \ {r},
                            !.total_active = IF @ > 0 THEN @ - 1 ELSE 0,
                            !.task[r] = 0, !.since[r] = 0]), a)

(* reset_countdown, after the old countdown was dealt with *)
FinishReset(m, a, r) ==
    Leave(Release(CreateTask([m EXCEPT !.resets[r] = @ + 1], r)), a)

(* What follows `await room.countdown_task` *)
AfterAwait(m, a) ==
    IF m.op[a].name = "remove" THEN FinishRemove(m, a, m.op[a].room)
    ELSE FinishReset(m, a, m.op[a].room)

(* Variant: reset_countdown starts the new countdown without cancelling the
   old one. *)
Critical_ResetKeepsTimer(m, a) ==
    LET name == m.op[a].name
        r == m.op[a].room
    IN  IF name = "add"
        THEN IF r \in m.rooms THEN Leave(Release(m), a) ELSE FinishAdd(m, a, r)
        ELSE IF r \notin m.rooms THEN Leave(Release(m), a)
        ELSE IF name = "reset" THEN FinishReset(m, a, r)
        ELSE IF TaskPending(m, r)
        THEN IF TaskOf(m, r) = a
             THEN [m EXCEPT !.pc[a] = "self_await"]
             ELSE [Cancel(m, TaskOf(m, r)) EXCEPT !.pc[a] = "await",
                                                  !.awaiting[a] = TaskOf(m, r)]
        ELSE AfterAwait(m, a)

(* The body under `async with self.lock` of add, remove and reset_countdown,
   up to its return or to `await room.countdown_task`: the task is cancelled
   and awaited; a countdown task that removes its own room cancels and awaits
   itself *)
Critical(m, a) ==
    LET name == m.op[a].name
        r == m.op[a].room
    IN  IF name = "add"
        THEN IF r \in m.rooms THEN Leave(Release(m), a) ELSE FinishAdd(m, a, r)
        ELSE IF r \notin m.rooms THEN Leave(Release(m), a)
        ELSE IF TaskPending(m, r)
        THEN IF TaskOf(m, r) = a
             THEN [m EXCEPT !.pc[a] = "self_await"]
             ELSE [Cancel(m, TaskOf(m, r)) EXCEPT !.pc[a] = "await",
                                                  !.awaiting[a] = TaskOf(m, r)]
        ELSE AfterAwait(m, a)

(* asyncio.Lock.acquire: taken at once when it is free and nobody waits, else
   the caller joins the queue *)
Acquire(m, a) ==
    IF m.lock = NoActor /\ m.waiters = << >>
    THEN Critical([m EXCEPT !.lock = a], a)
    ELSE [m EXCEPT !.waiters = Append(@, a), !.pc[a] = "lock_wait"]

offmgr == <<chainvars, regvars, schemavars, spinevars, sock>>

(* The add and reset_countdown calls in progress or waiting for room r *)
Pending(m, r) ==
    Cardinality({a \in Actors : m.op[a].room = r /\ m.op[a].name \in {"add", "reset"}})

(* A handler calls manager.add(session), manager.remove(room_id) or
   manager.reset_countdown(room_id) *)
Call(h, name, r) ==
    /\ mgr.pc[h] = "idle"
    /\ name \in {"add", "reset"} => mgr.made[r] + Pending(mgr, r) < MaxTimers
    /\ mgr' = Acquire([mgr EXCEPT !.op[h] = [name |-> name, room |-> r]], h)
    /\ UNCHANGED offmgr

(* The lock is free and the first waiter takes it *)
Grant(a) ==
    /\ mgr.lock = NoActor
    /\ mgr.waiters # << >>
    /\ Head(mgr.waiters) = a
    /\ mgr' = Critical([mgr EXCEPT !.lock = a, !.waiters = Tail(@)], a)
    /\ UNCHANGED offmgr

(* `await room.countdown_task` returns (CancelledError is passed over) once
   the task is done *)
Resume(a) ==
    /\ mgr.pc[a] = "await"
    /\ mgr.pc[mgr.awaiting[a]] = "done"
    /\ mgr' = AfterAwait(mgr, a)
    /\ UNCHANGED offmgr

(* Variant: the RuntimeError of a task awaiting itself leaves remove and is
   logged by _countdown. *)
SelfAwait_Raises(t) ==
    /\ mgr.pc[t] = "self_await"
    /\ mgr' = Leave(Release(mgr), t)
    /\ UNCHANGED offmgr

(* The countdown task awaits itself after cancelling itself: the event loop
   steps it again with an exception, which its pending cancellation turns
   into CancelledError; remove passes over it and goes on *)
SelfAwait(t) ==
    /\ mgr.pc[t] = "self_await"
    /\ mgr' = FinishRemove(mgr, t, mgr.op[t].room)
    /\ UNCHANGED offmgr

(* A cancelled countdown task runs: CancelledError ends it *)
Cancelled(t) ==
    /\ mgr.pc[t] = "cancelling"
    /\ mgr' = Leave(mgr, t)
    /\ UNCHANGED offmgr

(* One tick of time passes for every sleeping countdown and every room *)
Tick ==
    /\ \/ \E t \in Timers : mgr.pc[t] = "sleep" /\ mgr.slept[t] < TimeoutTicks
       \/ \E r \in mgr.rooms : mgr.since[r] < TimeoutTicks
    /\ mgr' = [mgr EXCEPT
                 !.slept = [t \in Timers |->
                              IF mgr.pc[t] = "sleep" /\ @[t] < TimeoutTicks THEN @[t] + 1 ELSE @[t]],
                 !.since = [r \in RoomIds |->
                              IF r \in mgr.rooms /\ @[r] < TimeoutTicks THEN @[r] + 1 ELSE @[r]]]
    /\ UNCHANGED offmgr

(* asyncio.sleep(self.session_timeout) is over *)
Expire(t) ==
    /\ mgr.pc[t] = "sleep"
    /\ mgr.slept[t] = TimeoutTicks
    /\ mgr' = [mgr EXCEPT !.pc[t] = "expired"]
    /\ UNCHANGED offmgr

(* `if room_id in self.rooms: await self.remove(room_id)` *)
Wake(t) ==
    /\ mgr.pc[t] = "expired"
    /\ mgr' = IF t[1] \in mgr.rooms
              THEN Acquire([mgr EXCEPT !.op[t] = [name |-> "remove", room |-> t[1]]], t)
              ELSE Leave(mgr, t)
    /\ UNCHANGED offmgr

MgrInit ==
    /\ BaseInit({None})
    /\ SpineAbsent
    /\ mgr = NewManager
    /\ sock = Absent

TimerNext ==
    \/ \E a \in Actors : Grant(a)
    \/ \E a \in Actors : Resume(a)
    \/ \E t \in Timers : SelfAwait(t)
    \/ \E t \in Timers : Cancelled(t)
    \/ Tick
    \/ \E t \in Timers : Expire(t)
    \/ \E t \in Timers : Wake(t)

MgrNext ==
    \/ \E h \in Handlers, name \in {"add", "remove", "reset"}, r \in RoomIds : Call(h, name, r)
    \/ TimerNext

MgrSpec == MgrInit /\ [][MgrNext]_vars

(* The manager with room r1 left alone: r1 is added and neither removed nor
   reset by a handler, while r2 is used in every way *)
IdleRoom == "r1"

IdleNext ==
    \/ \E h \in Handlers, name \in {"add", "remove", "reset"}, r \in RoomIds :
          /\ r = IdleRoom => name = "add"
          /\ Call(h, name, r)
    \/ TimerNext

(* One step of the event loop for coroutine a, when it is ready to run *)
Run(a) ==
    \/ Grant(a)
    \/ Resume(a)
    \/ a \in Timers /\ SelfAwait(a)
    \/ a \in Timers /\ Cancelled(a)
    \/ a \in Timers /\ Expire(a)
    \/ a \in Timers /\ Wake(a)

(* The event loop runs every coroutine that is ready, and time passes;
   nothing is assumed about when handlers call *)
Scheduling == WF_vars(Tick) /\ \A a \in Actors : WF_vars(Run(a))

IdleSpec == MgrInit /\ [][IdleNext]_vars /\ Scheduling

(* --------------------------- WebSocket endpoint ------------------------- *)
(* Bound: the WebSocket clients that connect *)
MaxClients == 3

Clients == 1..MaxClients

(* socket.py at import: heartbeat = HeartMonitor(alive=False), no connection;
   no endpoint coroutine runs.  pong is the `alive` a client read in its last
   pong *)
NewSocket ==
    [active_connections |-> {}, alive |-> FALSE,
     pc |-> [c \in Clients |-> "new"],
     pong |-> [c \in Clients |-> "none"]]

(* HeartMonitor.set_alive *)
SetAlive(s, alive) == [s EXCEPT !.alive = alive]

offsock == <<chainvars, regvars, schemavars, spinevars, mgr>>

(* A client opens the socket: the endpoint starts and waits in
   `await websocket.accept()` *)
Connect(c) ==
    /\ sock.pc[c] = "new"
    /\ sock' = [sock EXCEPT !.pc[c] = "accept"]
    /\ UNCHANGED offsock

(* accept returned: active_connections.add(websocket);
   heartbeat.set_alive(True); then `await websocket.send_text(WELCOME_MSG)` *)
Accepted(c) ==
    /\ sock.pc[c] = "accept"
    /\ sock' = [SetAlive(sock, TRUE) EXCEPT !.active_connections = @ \cup {c},
                                            !.pc[c] = "welcome"]
    /\ UNCHANGED offsock

(* The welcome message was sent: the endpoint enters its receive loop *)
Welcomed(c) ==
    /\ sock.pc[c] = "welcome"
    /\ sock' = [sock EXCEPT !.pc[c] = "open"]
    /\ UNCHANGED offsock

(* The client went away before the welcome message: send_text raises outside
   the try statement, so the endpoint ends without its finally clause *)
WelcomeFails(c) ==
    /\ sock.pc[c] = "welcome"
    /\ sock' = [sock EXCEPT !.pc[c] = "failed"]
    /\ UNCHANGED offsock

(* A ping is answered with heartbeat.is_alive *)
Ping(c) ==
    /\ sock.pc[c] = "open"
    /\ sock' = [sock EXCEPT !.pong[c] = sock.alive]
    /\ UNCHANGED offsock

(* receive_text raises WebSocketDisconnect (or the loop fails otherwise); the
   finally clause removes the socket and calls heartbeat.set_alive(False) *)
Disconnect(c) ==
    /\ sock.pc[c] = "open"
    /\ sock' = [SetAlive(sock, FALSE) EXCEPT !.active_connections = @ \ {c},
                                             !.pc[c] = "closed"]
    /\ UNCHANGED offsock

SockInit ==
    /\ BaseInit({None})
    /\ SpineAbsent
    /\ mgr = Absent
    /\ sock = NewSocket

SockNext ==
    \/ \E c \in Clients : Connect(c)
    \/ \E c \in Clients : Accepted(c)
    \/ \E c \in Clients : Welcomed(c)
    \/ \E c \in Clients : WelcomeFails(c)
    \/ \E c \in Clients : Ping(c)
    \/ \E c \in Clients : Disconnect(c)

SockSpec == SockInit /\ [][SockNext]_vars


(* ======================================================================= *)
(*                               properties                                *)
(* ======================================================================= *)
LastVisit == visited[Len(visited)]

Stages3Chain ==
    /\ next_stage["DefineDataset"] = "DescribeDataset"
    /\ next_stage["DescribeDataset"] = "DataTyperStage"
    /\ next_stage["DataTyperStage"] = NoStage

(* The run was started on a stage's forward (directly or through BasementPipe.run) *)
ForwardRun == entry \in {"forward1", "forward2", "basement", "engine"}

(* C1: when a non-terminal stage's own validate_stage_output raises during
   forward, agent.state is still what it was when that stage's forward was
   entered: the failing stage has not advanced it to its successor. *)
C1_StateNotAdvancedOnValidateFailure ==
    (/\ pc = "done"
     /\ ForwardRun
     /\ error.site = "validate"
     /\ next_stage[error.stage] # NoStage)
        => agent.state = LastVisit.state

(* C2: a stage entered by delegation is the successor of the frame before it,
   and that frame's validate_stage_output had returned without raising; once
   an exception is raised no statement of any stage runs any more, and the
   exception the caller gets is the one that was raised. *)
C2_Ordered ==
    /\ \A i \in 2..Len(visited) :
          /\ visited[i].via = "delegation"
          /\ visited[i - 1].validated
          /\ visited[i].stage = next_stage[visited[i - 1].stage]
    /\ error # NoError => pc \in {"bp_except", "done"}

C2_NextStageOnlyAfterValidation ==
    /\ []C2_Ordered
    /\ [][error # NoError => (error' = error /\ visited' = visited) \/ pc' = "idle"]_vars

(* C2 witness: a successor's forward has been entered after its predecessor
   validated. *)
C2_Witness ==
    /\ Len(visited) = 2
    /\ visited[1].validated
    /\ visited[2].via = "delegation"
    /\ pc = "stage_pre"

(* C3: on the chain Define -> Describe -> DataTyper, forward on the head with
   a session that has data (and no failing external call) ends without an
   exception having visited exactly Define, Describe, DataTyper in that order. *)
C3_VisitsEachStageOnce ==
    (/\ pc = "done"
     /\ entry = "forward1"
     /\ before.head = "DefineDataset"
     /\ Stages3Chain
     /\ before.session.data # None
     /\ error.type # "ExternalError")
        => /\ error = NoError
           /\ [i \in 1..Len(visited) |-> visited[i].stage]
                = <<"DefineDataset", "DescribeDataset", "DataTyperStage">>

(* C4: a run that ends without an exception returns the session object it
   was given. *)
C4_ReturnsTheSession ==
    (pc = "done" /\ ForwardRun /\ error = NoError) => result = SessionRef

(* C5: every forward frame of a run has the caller's session object as its
   session argument, never None. *)
C5_SameSessionEverywhere ==
    \A i \in 1..Len(visited) : visited[i].arg = SessionRef

(* C6: at the call of the successor's forward, agent.state is the successor's
   class name. *)
C6_StateNamesSuccessorAtDelegation ==
    pc = "eng_delegate" => agent.state = next_stage[cur]

C6_Witness ==
    pc = "eng_delegate" /\ cur = "DescribeDataset" /\ agent.state = "DataTyperStage"

(* C7: whenever a forward frame is entered, the head's included, agent.state
   is the class name of the stage entered. *)
C7_StateNamesStageAtEntry ==
    \A i \in 1..Len(visited) : visited[i].state = visited[i].stage

(* C8: while the forward of a stage without successor runs, and when it has
   returned or raised, agent.state is what it was when that forward was
   entered. *)
C8_TerminalLeavesStateAlone ==
    (/\ pc \notin {"idle"}
     /\ visited # << >>
     /\ cur # NoStage
     /\ next_stage[cur] = NoStage)
        => agent.state = LastVisit.state

C8_Witness ==
    /\ pc = "done"
    /\ entry = "engine"
    /\ cur = "DataTyperStage"
    /\ next_stage[cur] = NoStage
    /\ Len(visited) = 1
    /\ error = NoError

(* The type columns data_summary lacks (both when there is no data_summary) *)
LackingTypeCols(sess) ==
    IF IsFrame(sess.data_summary)
    THEN Range(DATA_SUMMARY_TYPE_COLS) \ Range(sess.data_summary.columns)
    ELSE Range(DATA_SUMMARY_TYPE_COLS)

(* C9: when DataTyperStage.forward has run to its last statement and
   data_summary lacks a type column, the run ends with the ValueError of
   DataTyperStage.validate_stage_output, naming exactly the lacking columns. *)
C9_TyperValidatesItsOutput ==
    (/\ pc = "done"
     /\ ForwardRun
     /\ cur = "DataTyperStage"
     /\ error.site \notin {"precondition", "transform"}
     /\ LackingTypeCols(session) # {})
        => /\ error.site = "validate"
           /\ error.stage = "DataTyperStage"
           /\ IsFrame(session.data_summary) => error.missing = LackingTypeCols(session)

(* The field the stage's forward requires is absent in the caller's session *)
PreconditionAbsent(c) ==
    \/ c.head = "DefineDataset" /\ c.session.data = None
    \/ c.head \in {"DescribeDataset", "DataTyperStage"} /\ c.session.data_summary = None

(* C10: forward of a stage called with its required upstream field absent
   raises, and the session's fields and the agent's are those of before the
   call, at every moment of the run. *)
C10_FailFastLeavesSessionAlone ==
    (entry \in {"forward1", "forward2", "basement"} /\ PreconditionAbsent(before))
        => /\ session = before.session
           /\ agent = before.agent
           /\ pc = "done" => error # NoError

C10_Witness ==
    /\ pc = "done"
    /\ entry = "forward2"
    /\ before.head = "DescribeDataset"
    /\ PreconditionAbsent(before)
    /\ error.type = "ValueError"
    /\ error.site = "precondition"

(* The summary table of the session has one row for every column of its data *)
OneRowPerInputColumn(sess) ==
    \A c \in Range(sess.data_summary.columns) :
        Len(sess.data_summary.cells[c]) = Len(sess.data.columns)

(* DefineDataset.forward was called on a session holding a table, and its
   body has run to its last statement *)
DefineBodyRan ==
    /\ entry = "forward1"
    /\ before.head = "DefineDataset"
    /\ before.session.data # None
    /\ pc \in {"stage_super", "done"}

(* C11: once DefineDataset.forward has run its body on a session whose data
   is a table (zero rows and zero columns included), data_summary has exactly
   the five columns of DATA_SUMMARY_COLS, one row per input column, and
   data_types is set. *)
C11_DefineSummaryShape ==
    DefineBodyRan
        => /\ IsFrame(session.data_summary)
           /\ Range(session.data_summary.columns) =
                  {"data_field_name", "data_type", "missing_count", "missing_ratio", "unique_count"}
           /\ Len(session.data_summary.columns) = 5
           /\ OneRowPerInputColumn(session)
           /\ session.data_summary.cells["data_field_name"] = session.data.columns
           /\ session.data_types # None

C11_Witness ==
    /\ DefineBodyRan
    /\ pc = "done"
    /\ Len(session.data.columns) = MaxCols
    /\ NRows(session.data) = 0
    /\ Len(session.data_summary.cells["unique_count"]) = MaxCols

(* DescribeDataset.forward was called on a session whose summary is the one
   DefineDataset builds from its data, and its body has run to its last
   statement without an external call failing *)
DescribeBodyRan ==
    /\ entry \in {"forward2", "basement"}
    /\ before.head = "DescribeDataset"
    /\ before.session.data # None
    /\ before.session.data_summary = DefineSummary(before.session.data)
    /\ cur = "DescribeDataset"
    /\ pc \in {"stage_super", "bp_except", "done"}
    /\ error.site # "transform"

(* C12: once DescribeDataset.forward has run its body on a session whose
   data_summary is DefineDataset's, the summary has exactly the five
   DATA_SUMMARY_COLS plus description, still one row per input column, and
   session.description is set. *)
C12_DescribeSummaryShape ==
    DescribeBodyRan
        => /\ IsFrame(session.data_summary)
           /\ Range(session.data_summary.columns) =
                  {"data_field_name", "data_type", "missing_count", "missing_ratio",
                   "unique_count", "description"}
           /\ Len(session.data_summary.columns) = 6
           /\ OneRowPerInputColumn(session)
           /\ session.description # None

C12_Witness ==
    /\ DescribeBodyRan
    /\ pc = "done"
    /\ Len(session.data.columns) = MaxCols
    /\ Len(session.data_summary.cells["description"]) = MaxCols
    /\ session.description = Str(LLMReply)

(* The columns the stages after DefineDataset add to the summary *)
AddedCols == Range(DATA_SUMMARY_NEW_COLS) \cup Range(DATA_SUMMARY_TYPE_COLS)

(* C13: during a run, once the session has its summary table, every step
   other than DefineDataset's own creation of the table keeps each column of
   the table under its name, and the only columns a step adds are
   description, _data_types and _data_num_types. *)
C13_SummaryColumnsOnlyGrow ==
    [][(/\ pc # "idle"
        /\ IsFrame(session.data_summary)
        /\ ~(cur = "DefineDataset" /\ pc = "stage_transform"))
           => /\ IsFrame(session'.data_summary)
              /\ Range(session.data_summary.columns) \subseteq Range(session'.data_summary.columns)
              /\ Range(session'.data_summary.columns) \ Range(session.data_summary.columns)
                    \subseteq {"description", "_data_types", "_data_num_types"}]_vars

C13_Witness ==
    /\ pc = "done"
    /\ cur = "DataTyperStage"
    /\ IsFrame(session.data_summary)
    /\ Range(session.data_summary.columns) = Range(DATA_SUMMARY_COLS) \cup AddedCols
    /\ Len(session.data_summary.columns) = 8

(* DescribeDataset.validate_stage_output has just been evaluated on the
   session: called on its own, or by ChainStage.forward before delegating *)
DescribeValidated ==
    /\ cur = "DescribeDataset"
    /\ \/ entry = "validate" /\ pc = "done"
       \/ entry = "engine" /\ pc = "eng_delegate"
       \/ entry = "engine" /\ pc = "done" /\ error.site = "validate"

(* C14: DescribeDataset.validate_stage_output raises exactly when
   data_summary is None or its column set is not the expected six; on a
   mismatch its one ValueError carries the set of missing columns and the set
   of extra columns. *)
C14_DescribeValidateRaisesIffMismatch ==
    DescribeValidated
        => LET six == {"data_field_name", "data_type", "missing_count", "missing_ratio",
                       "unique_count", "description"}
               summary == session.data_summary
           IN  /\ (error # NoError) <=> (summary = None \/ Range(summary.columns) # six)
               /\ error # NoError => error.type = "ValueError" /\ error.site = "validate"
               /\ (summary # None /\ Range(summary.columns) # six)
                     => /\ error.missing = six \ Range(summary.columns)
                        /\ error.extra = Range(summary.columns) \ six

C14_Witness ==
    /\ DescribeValidated
    /\ entry = "validate"
    /\ error.type = "ValueError"
    /\ error.missing = {"description"}
    /\ error.extra = {"_data_types", "_data_num_types"}

(* C15: a step that evaluates a stage's validate_stage_output, called on its
   own or from ChainStage.forward, on either branch, leaves every field of
   the session and the agent as they were, whether it returns or raises. *)
C15_ValidateIsReadOnly ==
    [][(\/ pc = "idle" /\ entry' = "validate"
        \/ pc \in {"eng_validate", "eng_terminal"})
           => session' = session /\ agent' = agent]_vars

C15_Witness ==
    /\ pc = "done"
    /\ entry = "validate"
    /\ cur = "DescribeDataset"
    /\ error.site = "validate"
    /\ IsFrame(session.data_summary)
    /\ session = before.session
    /\ agent = before.agent

(* C16: in every step of a run, data_types changes and data_summary is
   created only in DefineDataset's frame, the dataset-level description
   changes only in DescribeDataset's frame, and id, created_timestamp and
   data do not change at all. *)
C16_OneWriterPerField ==
    [][pc # "idle"
         => /\ session'.data_types # session.data_types => cur = "DefineDataset"
            /\ (session.data_summary = None /\ session'.data_summary # None)
                  => cur = "DefineDataset"
            /\ session'.description # session.description => cur = "DescribeDataset"
            /\ session'.id = session.id
            /\ session'.created_timestamp = session.created_timestamp
            /\ session'.data = session.data]_vars

C16_Witness ==
    /\ pc = "done"
    /\ cur = "DescribeDataset"
    /\ before.session.description = None
    /\ session.description # None
    /\ session.data_types # None
    /\ session.data_types = before.session.data_types
    /\ session.data = before.session.data

(* The run now finished was given the same call as the run kept for
   comparison, on an equal session, with another agent.state, and neither
   run was cut short by a failing external call *)
TwinRunsDone ==
    /\ pc = "done"
    /\ first_run.entry = entry
    /\ first_run.head = before.head
    /\ first_run.chain = next_stage
    /\ first_run.session = before.session
    /\ first_run.agent.state # before.agent.state
    /\ first_run.error.type # "ExternalError"
    /\ error.type # "ExternalError"

(* C17: two runs of the same chain from the same stage on equal sessions
   that differ only in the initial agent.state visit the same stages in the
   same order, end with the same exception or the same result, and leave
   equal session fields. *)
C17_StateDoesNotSteerTheRun ==
    TwinRunsDone
        => /\ [i \in 1..Len(visited) |-> visited[i].stage] = first_run.stages
           /\ error = first_run.error
           /\ result = first_run.result
           /\ session = first_run.after

C17_Witness ==
    /\ TwinRunsDone
    /\ entry = "engine"
    /\ before.head = "DefineDataset"
    /\ Stages3Chain
    /\ first_run.agent.state = NoState
    /\ before.agent.state = "DescribeDataset"
    /\ Len(visited) = 2

(* C18: set_next_stage(s) makes s the successor of the receiver, returns s
   and changes the link of no other stage; so a call chained on the returned
   stage leaves the first link in place, links the returned stage to its
   argument, and leaves the argument's own link alone: after
   a.set_next_stage(b).set_next_stage(c) the chain is a -> b -> c. *)
C18_SetNextStageLinksAndReturns ==
    /\ [](recv # NoStage => next_stage[recv] = ret)
    /\ [][<<next_stage, recv, ret>> # <<next_stage', recv', ret'>>
            => /\ next_stage'[recv'] = ret'
               /\ \A s \in Stages \ {recv'} : next_stage'[s] = next_stage[s]
               /\ (recv' = ret /\ recv \notin {NoStage, ret})
                     => /\ next_stage'[recv] = ret
                        /\ next_stage'[ret] = ret'
                        /\ ret' \notin {recv, ret} => next_stage'[ret'] = next_stage[ret']]_vars

C18_Witness ==
    /\ Stages3Chain
    /\ recv = "DescribeDataset"
    /\ ret = "DataTyperStage"

(* C19: constructing the Actuator for a workflow name that already exists
   leaves every tool of that workflow retrievable, get_action returning the
   same callable and get_meta the same metadata as before. *)
C19_ReconstructKeepsTools ==
    [][(reg_op'.op = "construct" /\ reg_op'.workflow \in DOMAIN workflow)
          => LET w == reg_op'.workflow
             IN  \A t \in DOMAIN workflow[w] \cup DOMAIN action_space[w] :
                    /\ ~GetAction(action_space', w, t).raised
                    /\ ~GetMeta(workflow', w, t).raised
                    /\ GetAction(action_space', w, t) = GetAction(action_space, w, t)
                    /\ GetMeta(workflow', w, t) = GetMeta(workflow, w, t)]_vars

C19_Witness ==
    /\ reg_op.op = "construct"
    /\ reg_op.workflow \in DOMAIN workflow
    /\ DOMAIN action_space[reg_op.workflow] = ToolNames
    /\ \A t \in ToolNames :
          GetMeta(workflow, reg_op.workflow, t).value.function.callable =
              GetAction(action_space, reg_op.workflow, t).value

(* C20: decorating a function in a workflow makes get_action return that
   function, and get_meta its metadata, under the function's name, and
   leaves what the two lookups return for every other name of the workflow
   as it was; so two functions of different names registered in either order
   are each returned under their own name. *)
C20_TwoToolsIndependentlyRetrievable ==
    [][reg_op'.op = "decorate"
          => LET w == reg_op'.workflow
                 func == reg_op'.func
             IN  /\ GetAction(action_space', w, func.name) = Returned(func)
                 /\ GetMeta(workflow', w, func.name) = Returned(Meta(func))
                 /\ \A t \in ToolNames \ {func.name} :
                       /\ GetAction(action_space', w, t) = GetAction(action_space, w, t)
                       /\ GetMeta(workflow', w, t) = GetMeta(workflow, w, t)]_vars

C20_Witness ==
    /\ reg_op.op = "decorate"
    /\ reg_op.tool = "heckman_selection"
    /\ LET w == reg_op.workflow
       IN  /\ GetAction(action_space, w, "heckman_selection") = Returned(reg_op.func)
           /\ ~GetAction(action_space, w, "littles_mcar_test").raised
           /\ GetAction(action_space, w, "littles_mcar_test").value.name = "littles_mcar_test"
           /\ GetMeta(workflow, w, "littles_mcar_test").value.function.name = "littles_mcar_test"

(* C21: decorating a function in one workflow leaves what get_action and
   get_meta give for every name in every other workflow as it was, whether
   or not the other workflow exists or has a tool of that name. *)
C21_WorkflowsAreIsolated ==
    [][reg_op'.op = "decorate"
          => \A b \in WorkflowNames \ {reg_op'.workflow} : \A t \in ToolNames :
                /\ GetAction(action_space', b, t) = GetAction(action_space, b, t)
                /\ GetMeta(workflow', b, t) = GetMeta(workflow, b, t)]_vars

C21_Witness ==
    /\ reg_op.op = "decorate"
    /\ reg_op.workflow = "statistical_methods"
    /\ reg_op.tool = "littles_mcar_test"
    /\ "missing_val_resolver" \in DOMAIN action_space
    /\ DOMAIN action_space["missing_val_resolver"] = {"littles_mcar_test"}
    /\ action_space["missing_val_resolver"]["littles_mcar_test"] # reg_op.func
    /\ action_space["statistical_methods"]["littles_mcar_test"] = reg_op.func

(* C22: get_action for a workflow that was never registered raises an error
   whose message contains both the requested workflow name and the requested
   tool name, and the call leaves both tables of the registry as they were. *)
C22_UnknownWorkflowErrorNamesBoth ==
    /\ []((reg_op.op = "get_action" /\ reg_op.workflow \notin DOMAIN action_space)
            => /\ reg_op.outcome.raised
               /\ reg_op.outcome.mentions = {reg_op.workflow, reg_op.tool})
    /\ [][reg_op'.op = "get_action"
            => workflow' = workflow /\ action_space' = action_space]_vars

(* C23: after any sequence of registrations, for every workflow name and
   tool name get_meta raises exactly when get_action raises, and when they
   return, the callable inside the metadata is the function get_action
   returns. *)
C23_MetaAndActionFailTogether ==
    \A w \in WorkflowNames : \A t \in ToolNames :
        LET a == GetAction(action_space, w, t)
            m == GetMeta(workflow, w, t)
        IN  /\ m.raised <=> a.raised
            /\ ~a.raised => m.value.function.callable = a.value

C23_Witness ==
    /\ reg_op.op = "get_meta"
    /\ ~reg_op.outcome.raised
    /\ reg_op.outcome.value.function.callable.version = MaxVersions
    /\ GetAction(action_space, reg_op.workflow, reg_op.tool) =
           Returned(reg_op.outcome.value.function.callable)
    /\ \E w \in WorkflowNames : \E u \in ToolNames :
          GetAction(action_space, w, u).raised /\ GetMeta(workflow, w, u).raised

(* The place of the parameter named p in the signature *)
PlaceOf(p) == CHOOSE i \in 1..Len(sig) : sig[i].name = p

(* C24: the schema stored for a decorated function has one property for each
   parameter, typed integer, number or boolean for an int, float or bool
   annotation and string for any other or no annotation, and its required
   list holds exactly the parameters without a default, once each, in the
   order of the signature. *)
C24_SchemaFollowsSignature ==
    schema # NoSchema
        => /\ DOMAIN schema.properties = {sig[i].name : i \in 1..Len(sig)}
           /\ \A i \in 1..Len(sig) :
                 LET ty == schema.properties[sig[i].name].type
                     an == sig[i].annotation
                 IN  /\ ty \in {"integer", "number", "boolean", "string"}
                     /\ ty = "integer" <=> an = "int"
                     /\ ty = "number" <=> an = "float"
                     /\ ty = "boolean" <=> an = "bool"
           /\ Range(schema.required) = {sig[i].name : i \in {k \in 1..Len(sig) : ~sig[k].has_default}}
           /\ \A i, j \in 1..Len(schema.required) :
                 i < j => PlaceOf(schema.required[i]) < PlaceOf(schema.required[j])

C24_Witness ==
    /\ schema # NoSchema
    /\ Len(sig) = MaxParams
    /\ sig[1].annotation = "missing" /\ ~sig[1].has_default
    /\ sig[MaxParams].annotation = "bool" /\ sig[MaxParams].has_default
    /\ schema.properties[sig[1].name].type = "string"
    /\ schema.properties[sig[MaxParams].name].type = "boolean"
    /\ sig[1].name \in Range(schema.required)
    /\ sig[MaxParams].name \notin Range(schema.required)

(* A run call on the instance has passed its output listener and not yet
   returned *)
PastOutput(inst) == spc = "run_post" /\ frame.inst = inst

(* C25: on an instance whose run calls have all returned, the history has
   one entry for each returned call (and one more while a call is between
   its output listener and its return), and `current` is None except between
   the input listener and the output listener of a call in progress. *)
C25_OneEntryPerRun ==
    \A inst \in Instances :
        /\ tally[inst].raised = 0
             => Len(history[inst]) = tally[inst].returned + (IF PastOutput(inst) THEN 1 ELSE 0)
        /\ current[inst] # NoEntry => (spc = "run_output" /\ frame.inst = inst)

C25_Witness ==
    /\ spc = "idle"
    /\ spine_cls = "DataMetaSummary"
    /\ tally["self"].raised = 0
    /\ tally["self"].returned = MaxCalls
    /\ Len(history["self"]) = MaxCalls
    /\ current["self"] = NoEntry

IsPrefix(s, u) == Len(s) <= Len(u) /\ SubSeq(u, 1, Len(s)) = s

(* The step creates the object anew: cls() for `self`, and for numTyper also
   the NumericTyper() at the start of DataTyper.run_loop *)
NewObjectStep(inst) ==
    IF inst = "self" THEN spc = "idle" /\ spc' = "idle" /\ call_end' = NoOutcome
    ELSE spc = "idle"

(* C26: in every step of every call on an instance, returning or raising,
   the history before the step is a prefix of the history after it: entries
   are only appended, none is changed or removed. *)
C26_HistoryIsAppendOnly ==
    [][\A inst \in Instances :
          ~NewObjectStep(inst) => IsPrefix(history[inst], history'[inst])]_vars

C26_Witness ==
    /\ spc = "idle"
    /\ spine_cls = "NumericTyper"
    /\ tally["self"].raised >= 1
    /\ tally["self"].returned >= 1
    /\ Len(history["self"]) = MaxCalls
    /\ history["self"][1].output # history["self"][MaxCalls].output

(* run_loop of the given kind has returned its mapping(s) *)
LoopReturned(kind) ==
    /\ spc = "idle"
    /\ call_end.op = "run_loop"
    /\ call_end.arg = kind
    /\ ~call_end.raised

(* C27: DataMetaSummary.run_loop makes its run calls one after another in the
   column order of the sample, one per column; when it returns, every column
   has had its call, the key set of the returned mapping is the set of column
   names, and the describer's history is longer by the number of columns. *)
C27_MetaLoopOneRunPerColumn ==
    /\ loop.kind = "meta" =>
          /\ Len(calls) <= Len(loop.cols)
          /\ \A k \in 1..Len(calls) : calls[k] = <<"self", loop.cols[k]>>
          /\ spc = "loop_head" => current["self"] = NoEntry /\ Len(calls) = loop.i - 1
    /\ LoopReturned("meta") =>
          /\ Len(calls) = Len(loop.cols)
          /\ DOMAIN call_end.meta = Range(loop.cols)
          /\ Len(history["self"]) = loop.base + Len(loop.cols)

C27_Witness ==
    /\ LoopReturned("meta")
    /\ Len(loop.cols) = MaxCols
    /\ loop.base >= 1
    /\ Len(history["self"]) = loop.base + MaxCols

(* The columns the second-level classifier was called for, in call order *)
NumTyperCalls == SelectSeq(calls, LAMBDA c : c[1] = "numTyper")

(* C28: DataTyper.run_loop asks the second-level classifier only about a
   column it has just typed "numeric", and once; the broad-type mapping it
   returns has an entry for every column and the subtype mapping it returns
   has exactly the columns typed "numeric" as its keys. *)
C28_TyperLoopSubtypesNumericOnly ==
    /\ loop.kind = "typer" =>
          /\ \A k \in 1..Len(calls) :
                calls[k][1] = "numTyper" =>
                   /\ k > 1
                   /\ calls[k - 1] = <<"self", calls[k][2]>>
                   /\ calls[k][2] \in DOMAIN loop.meta
                   /\ loop.meta[calls[k][2]] = "numeric"
          /\ \A j, k \in 1..Len(calls) : calls[j] = calls[k] => j = k
    /\ LoopReturned("typer") =>
          /\ DOMAIN call_end.meta = Range(loop.cols)
          /\ DOMAIN call_end.meta_num = {c \in Range(loop.cols) : call_end.meta[c] = "numeric"}
          /\ Range([k \in 1..Len(NumTyperCalls) |-> NumTyperCalls[k][2]]) = DOMAIN call_end.meta_num
          /\ tally["numTyper"].started = Cardinality(DOMAIN call_end.meta_num)

C28_Witness ==
    /\ LoopReturned("typer")
    /\ Len(loop.cols) = MaxCols
    /\ Cardinality(DOMAIN call_end.meta_num) = 1
    /\ \E c \in Range(loop.cols) : call_end.meta[c] # "numeric"

(* C29: NumericTyper.post_process returns the answer when, lowered, it is one
   of continuous, binary, multi, ordinal, nominal, and raises ValueError for
   every other answer. *)
C29_NumericPostProcessAcceptsListed ==
    (call_end.op = "post_process" /\ spine_cls = "NumericTyper") =>
        IF Lower(call_end.arg) \in {"continuous", "binary", "multi", "ordinal", "nominal"}
        THEN ~call_end.raised /\ call_end.value = call_end.arg
        ELSE call_end.raised /\ call_end.error = "ValueError"

(* run_loop has ended with an exception *)
LoopFailed ==
    /\ call_end.op = "run_loop"
    /\ call_end.raised
    /\ spc = "idle"

(* C30: once a run call inside run_loop has raised, no further run call is
   made and the error raised is the error that leaves run_loop and, when a
   stage's forward called run_loop, leaves forward for the caller: the
   failing call is the last call of the loop and the error is unchanged on
   the way out. *)
C30_LoopFailureNotRetried ==
    /\ [](LoopFailed =>
            /\ call_end.at = "caller"
            /\ calls # << >>
            /\ calls[Len(calls)] = <<frame.inst, frame.label>>
            /\ Len(calls) <= Len(loop.cols) + tally["numTyper"].started
            /\ tally["self"].raised + tally["numTyper"].raised >= 1)
    /\ [][(spc = "loop_except" \/ spc = "fwd_unwind") =>
            (/\ calls' = calls
             /\ tally' = tally
             /\ call_end'.raised
             /\ call_end'.error = call_end.error
             /\ spc' \in {"fwd_unwind", "idle"})]_vars

C30_Witness ==
    /\ LoopFailed
    /\ loop.via = "forward"
    /\ call_end.at = "caller"
    /\ Len(loop.cols) = MaxCols
    /\ loop.i = 1
    /\ calls = << <<"self", loop.cols[1]>>, <<"numTyper", loop.cols[1]>> >>
    /\ call_end.error = "ValueError"

Abs(n) == IF n < 0 THEN 0 - n ELSE n

(* C31: in the summary DefineDataset builds, row i is about input column i:
   missing_count is the number of its null cells, unique_count the number of
   its distinct non-null values, and, for a table with rows, missing_ratio is
   the multiple of 10^-5 nearest to missing_count / row_count * 100; so
   0 <= missing_count <= row_count and unique_count <= row_count - missing_count. *)
C31_SummaryCountsAreExact ==
    IsFrame(session.data_summary) =>
        LET data == session.data
            summary == session.data_summary
            rows == NRows(data)
        IN  /\ Len(summary.cells["data_field_name"]) = Len(data.columns)
            /\ \A i \in 1..Len(data.columns) :
                 LET cells == data.cells[data.columns[i]]
                     missing == Len(SelectSeq(cells, LAMBDA v : v = NullCell))
                     present == {v \in SummaryValues \cup CellValues :
                                    v # NullCell /\ \E k \in 1..Len(cells) : cells[k] = v}
                     ratio == summary.cells["missing_ratio"][i]
                 IN  /\ summary.cells["data_field_name"][i] = data.columns[i]
                     /\ summary.cells["missing_count"][i] = missing
                     /\ summary.cells["unique_count"][i] = Cardinality(present)
                     /\ 0 <= summary.cells["missing_count"][i]
                     /\ summary.cells["missing_count"][i] <= rows
                     /\ summary.cells["unique_count"][i] <= rows - summary.cells["missing_count"][i]
                     /\ rows > 0 =>
                          /\ ~ratio.nan
                          /\ 2 * Abs(ratio.e5 * rows - missing * 10000000) <= rows

C31_Witness ==
    /\ IsFrame(session.data_summary)
    /\ NRows(session.data) = MaxCells
    /\ \E i \in 1..Len(session.data.columns) :
          /\ session.data_summary.cells["missing_count"][i] = 1
          /\ session.data_summary.cells["unique_count"][i] = 2
          /\ session.data_summary.cells["missing_ratio"][i].e5 = 3333333

(* An add of a room id that is present, or a remove of a room id that is
   absent, takes the lock in this step, at once (a) or from the queue (a is
   its first waiter) *)
IdleCall(m, a) ==
    /\ m.op[a].name = "add" => m.op[a].room \in m.rooms
    /\ m.op[a].name = "remove" => m.op[a].room \notin m.rooms
    /\ m.op[a].name \in {"add", "remove"}

SameRooms(m1, m2) ==
    /\ m1.rooms = m2.rooms
    /\ m1.total_active = m2.total_active
    /\ m1.task = m2.task
    /\ m1.event = m2.event

(* C34: whatever add, remove, reset_countdown and the countdown expiries did
   and in whatever order, total_active is the number of rooms; an add of a
   room id that is present and a remove of a room id that is absent leave
   rooms and total_active as they were, whether the call finds the lock free
   or is served from the lock's queue. *)
C34_TotalActiveCountsRooms ==
    /\ [](mgr.total_active = Cardinality(mgr.rooms))
    /\ [](\A h \in Handlers, name \in {"add", "remove"}, r \in RoomIds :
            LET m == [mgr EXCEPT !.op[h] = [name |-> name, room |-> r]]
            IN  (mgr.pc[h] = "idle" /\ IdleCall(m, h)) => SameRooms(Acquire(m, h), mgr))
    /\ [][(/\ mgr.lock = NoActor
           /\ mgr.waiters # << >>
           /\ IdleCall(mgr, Head(mgr.waiters))
           /\ mgr'.lock = NoActor
           /\ mgr'.waiters = Tail(mgr.waiters))
          => SameRooms(mgr', mgr)]_vars

(* Two rooms were added and one of them removed, and a second add of the
   room that is left waits for the lock *)
C34_Witness ==
    /\ mgr.rooms = {"r1"}
    /\ mgr.total_active = 1
    /\ mgr.event["r2"] = "set"
    /\ \E h \in Handlers :
          /\ mgr.pc[h] = "lock_wait"
          /\ mgr.op[h] = [name |-> "add", room |-> "r1"]

(* The countdown tasks of room r that have started and are not done *)
PendingTimers(m, r) == {t \in Timers : t[1] = r /\ m.pc[t] \notin {"none", "done"}}

(* C33: a room leaves rooms at the hand of a countdown task only when that
   task is the room's current one, the one started by the add or by the last
   reset_countdown, and only after a full session_timeout has passed since
   then; a room id never has two pending countdowns, and while no operation
   holds the lock a room has exactly one and a removed room none.  This holds
   in every interleaving of reset_countdown with an expiring countdown. *)
C33_ResetRestartsTimer ==
    /\ [](\A r \in RoomIds :
            /\ Cardinality(PendingTimers(mgr, r)) <= 1
            /\ mgr.lock = NoActor =>
                  PendingTimers(mgr, r) = IF r \in mgr.rooms THEN {TaskOf(mgr, r)} ELSE {})
    /\ [][\A r \in RoomIds, t \in Timers :
            (/\ r \in mgr.rooms
             /\ r \notin mgr'.rooms
             /\ mgr.pc[t] # "done"
             /\ mgr'.pc[t] = "done")
            => (/\ t = TaskOf(mgr, r)
                /\ mgr.since[r] = TimeoutTicks)]_vars

(* reset_countdown restarted the timer of r1, and the second countdown has
   run its full time and is removing the room *)
C33_Witness ==
    /\ mgr.resets["r1"] = 1
    /\ mgr.task["r1"] = 2
    /\ "r1" \in mgr.rooms
    /\ mgr.since["r1"] = TimeoutTicks
    /\ mgr.pc[<<"r1", 2>>] = "self_await"
    /\ mgr.pc[<<"r1", 1>>] = "done"

(* C32: a room that was added and that no handler removes or resets is
   removed in the end, when its countdown has run its time: it is then out of
   rooms, its event is set and the lock is free; and the step that takes a
   room out of rooms always sets its event and leaves the lock free. *)
C32_IdleRoomIsRemoved ==
    /\ (IdleRoom \in mgr.rooms)
          ~> (/\ IdleRoom \notin mgr.rooms
              /\ mgr.event[IdleRoom] = "set"
              /\ mgr.lock = NoActor)
    /\ [][(IdleRoom \in mgr.rooms /\ IdleRoom \notin mgr'.rooms)
          => (/\ mgr'.event[IdleRoom] = "set"
              /\ mgr'.lock = NoActor
              /\ mgr.since[IdleRoom] = TimeoutTicks)]_vars

(* The idle room's countdown has run its time and removed the room, in a run
   where the other room's timer was restarted by reset_countdown *)
C32_Witness ==
    /\ IdleRoom \notin mgr.rooms
    /\ mgr.event[IdleRoom] = "set"
    /\ mgr.pc[<<IdleRoom, 1>>] = "done"
    /\ mgr.lock = NoActor
    /\ mgr.resets["r2"] = 1

(* C36: an agent that is not alive shows no state: in every state reached by
   chain runs, alive = False implies that agent.state is None. *)
C36_DeadAgentShowsNoState == agent.alive = FALSE => agent.state = NoState

(* C35: the shared heartbeat is alive exactly while a client is connected:
   whatever the order of the clients' connects and disconnects, alive is True
   when active_connections is not empty and False when it is empty. *)
C35_AliveWhileConnected == sock.alive <=> sock.active_connections # {}

(* The stages the run has entered, in order *)
StageOrder == [i \in 1..Len(visited) |-> visited[i].stage]

(* The run now finished was started as the run kept for comparison was, at
   the same stage of the same chain *)
SameChainRunsDone ==
    /\ pc = "done"
    /\ first_run.entry = entry
    /\ first_run.head = before.head
    /\ first_run.chain = next_stage

(* C37: no step of a run changes a successor link, whether the run returns or
   raises: links change only outside runs, by set_next_stage.  So two runs
   started alike on a chain that was not relinked in between enter the same
   stages in the same order as far as both get, and the same stages when
   neither raises. *)
C37_RunKeepsChainStructure ==
    /\ [][next_stage' # next_stage => (pc = "idle" /\ pc' = "idle")]_vars
    /\ [](SameChainRunsDone =>
            /\ IsPrefix(StageOrder, first_run.stages) \/ IsPrefix(first_run.stages, StageOrder)
            /\ (error = NoError /\ first_run.error = NoError) => StageOrder = first_run.stages)

(* The second of two runs from DefineDataset, linked to DescribeDataset, has
   ended: both entered the two stages in that order and both raised, and the
   link is in place *)
C37_Witness ==
    /\ SameChainRunsDone
    /\ before.head = "DefineDataset"
    /\ next_stage["DefineDataset"] = "DescribeDataset"
    /\ StageOrder = <<"DefineDataset", "DescribeDataset">>
    /\ first_run.stages = StageOrder
    /\ error # NoError
    /\ first_run.error # NoError

(* The step decorates a function under tool name t in workflow w *)
Decorates(w, t) ==
    reg_op'.op = "decorate" /\ reg_op'.workflow = w /\ reg_op'.tool = t

(* C38: after any sequence of Actuator constructions and decorations, the
   metadata table and the callable table hold the same workflow names and,
   per workflow, the same tool names; no step removes a workflow or a tool
   from either table; and the callable in a pair's metadata is the function
   last decorated under that pair: a decoration puts its function there, a
   second decoration of the name included, and every other step leaves the
   callable and the metadata of the pair as they are. *)
C38_TablesAgreeAndNeverShrink ==
    /\ [](/\ DOMAIN workflow = DOMAIN action_space
          /\ \A w \in DOMAIN workflow : DOMAIN workflow[w] = DOMAIN action_space[w])
    /\ [][\A w \in DOMAIN workflow :
            /\ w \in DOMAIN workflow'
            /\ w \in DOMAIN action_space'
            /\ \A t \in DOMAIN workflow[w] :
                  /\ t \in DOMAIN workflow'[w]
                  /\ t \in DOMAIN action_space'[w]
                  /\ ~Decorates(w, t) =>
                        /\ workflow'[w][t] = workflow[w][t]
                        /\ action_space'[w][t] = action_space[w][t]]_vars
    /\ [][reg_op'.op = "decorate" =>
            LET w == reg_op'.workflow
                t == reg_op'.tool
            IN  /\ t = reg_op'.func.name
                /\ workflow'[w][t].function.callable = reg_op'.func
                /\ action_space'[w][t] = reg_op'.func]_vars

(* Both workflows hold both tools; the last step decorated another function
   of a name in one workflow, whose metadata now carries it, while the other
   workflow keeps the first function of that name *)
C38_Witness ==
    /\ reg_op.op = "decorate"
    /\ reg_op.func.version = MaxVersions
    /\ DOMAIN workflow = WorkflowNames
    /\ \A w \in WorkflowNames : DOMAIN workflow[w] = ToolNames
    /\ workflow[reg_op.workflow][reg_op.tool].function.callable = reg_op.func
    /\ \E w \in WorkflowNames \ {reg_op.workflow} :
          workflow[w][reg_op.tool].function.callable.version = 1

====
